---- MODULE Spec2Model ----
(***************************************************************************)
(* Model of the operation lifecycle of taquito (dist/taquito.umd.js):     *)
(* OperationEmitter.prepareOperation, the forge / sign / preapply /       *)
(* inject pipeline of RpcContractProvider, RPCEstimateProvider and the    *)
(* confirmation tracker of Operation.                                     *)
(***************************************************************************)
EXTENDS Integers, Sequences, FiniteSets

(***************************************************************************)
(* Bounds of the model.                                                    *)
(***************************************************************************)
\* longest list of contents handed to prepareOperation
MaxOps == 2
\* largest on-chain counter of the source account
MaxBaseline == 2

(***************************************************************************)
(* JavaScript values: undefined, numbers and strings.  A string is a       *)
(* sequence of one-character strings, so that "" + n, parseInt,            *)
(* toLowerCase and startsWith are computed and not assumed.                *)
(***************************************************************************)
Undef == [t |-> "undefined"]

\* an array of values
Array(items) == [t |-> "array", items |-> items]

\* Array.isArray
IsArray(v) == v.t = "array"

\* 'key' in x, for the value x holds under the key
has(v) == v # Undef

Num(n) == [t |-> "number", v |-> n]

Str(s) == [t |-> "string", v |-> s]

Bool(b) == [t |-> "boolean", v |-> b]

IsUndef(x) == x.t = "undefined"

DigitChar == <<"0", "1", "2", "3", "4", "5", "6", "7", "8", "9">>

DigitOf(c) == (CHOOSE i \in 1..10 : DigitChar[i] = c) - 1

RECURSIVE ToString(_)
\* "" + n for a non-negative integer n
ToString(n) ==
    IF n < 10 THEN <<DigitChar[n + 1]>>
    ELSE ToString(n \div 10) \o <<DigitChar[(n % 10) + 1]>>

RECURSIVE parseInt(_)
\* parseInt(s, 10) for a string of decimal digits
parseInt(s) ==
    IF Len(s) = 0 THEN 0
    ELSE 10 * parseInt(SubSeq(s, 1, Len(s) - 1)) + DigitOf(s[Len(s)])

LowerChar(c) == IF c = "K" THEN "k" ELSE IF c = "T" THEN "t" ELSE c

toLowerCase(s) == [i \in 1..Len(s) |-> LowerChar(s[i])]

startsWith(s, p) == Len(s) >= Len(p) /\ SubSeq(s, 1, Len(p)) = p

(***************************************************************************)
(* Addresses and protocol hashes.                                          *)
(***************************************************************************)
SignerPkh == <<"t", "z", "1", "s">>

OtherPkh == <<"t", "z", "1", "o">>

ContractAddr == <<"K", "T", "1", "c">>

SignerPublicKey == <<"e", "d", "p", "k">>

Proto004 == "Pt24m4xi"

Proto005a == "PsBABY5H"

Proto005b == "PsBabyM1"

protocols005 == {Proto005a, Proto005b}

(***************************************************************************)
(* Operation contents.  Every content is a record with the same fields;    *)
(* a field the object does not carry is Undef.                             *)
(***************************************************************************)
SourceKinds == {"transaction", "origination", "delegation"}

FeeKinds == {"reveal", "transaction", "origination", "delegation"}

isSourceOp(op) == op.kind \in SourceKinds

isFeeOp(op) == op.kind \in FeeKinds

Content(k, src, fee, gas, sto, amt, bal, mp) ==
    [kind |-> k, source |-> src, fee |-> fee, gas_limit |-> gas,
     storage_limit |-> sto, counter |-> Undef, amount |-> amt, balance |-> bal,
     manager_pubkey |-> mp, public_key |-> Undef,
     spendable |-> Undef, delegatable |-> Undef, destination |-> Undef]

\* a content that carries the fields spendable and delegatable
withFlags(op, spendable, delegatable) ==
    [op EXCEPT !.spendable = Bool(spendable), !.delegatable = Bool(delegatable)]

\* the contents a caller may submit
SubmittedContents ==
    { Content("transaction", Undef, Undef, Undef, Undef, Num(15), Undef, Undef),
      Content("transaction", Str(ContractAddr), Num(0), Num(12), Undef, Undef, Undef, Undef),
      withFlags(Content("origination", Undef, Num(7), Undef, Num(0), Undef, Num(3),
                        Str(SignerPkh)), TRUE, FALSE),
      Content("delegation", Str(OtherPkh), Undef, Num(10), Num(0), Undef, Undef, Undef),
      Content("reveal", Undef, Undef, Undef, Undef, Undef, Undef, Undef),
      Content("activate_account", Undef, Undef, Undef, Undef, Undef, Undef, Undef) }

RECURSIVE SeqsUpTo(_, _)
SeqsUpTo(S, n) ==
    IF n = 0 THEN {<<>>}
    ELSE LET shorter == SeqsUpTo(S, n - 1)
         IN  shorter \cup {Append(s, x) : s \in {q \in shorter : Len(q) = n - 1}, x \in S}

\* the lists prepareOperation is called with (a single content is a list of one)
SubmittedLists == SeqsUpTo(SubmittedContents, MaxOps) \ {<<>>}

DEFAULT_FEE_REVEAL == 1420

DEFAULT_GAS_LIMIT_REVEAL == 10600

DEFAULT_STORAGE_LIMIT_REVEAL == 300

\* the answers of rpc.getManagerKey: protocol 005 answers null or the key,
\* protocol 004 an object whose key is set once revealed
ManagerAnswers == {"null", "key", "object_without_key", "object_with_key"}

ManagerRevealed(m) == m \in {"key", "object_with_key"}

\* !!manager alone: an object without a key counts as a revealed key
haveManagerTruthy(m) == m # "null"

\* manager && typeof manager === 'object' ? !!manager.key : !!manager
haveManager(m) ==
    IF m \in {"object_without_key", "object_with_key"}
    THEN m = "object_with_key"
    ELSE m = "key"

revealOp(publicKeyHash) ==
    [kind |-> "reveal", source |-> Str(publicKeyHash), fee |-> Num(DEFAULT_FEE_REVEAL),
     gas_limit |-> Num(DEFAULT_GAS_LIMIT_REVEAL),
     storage_limit |-> Num(DEFAULT_STORAGE_LIMIT_REVEAL), counter |-> Undef,
     amount |-> Undef, balance |-> Undef, manager_pubkey |-> Undef,
     public_key |-> Str(SignerPublicKey), spendable |-> Undef, delegatable |-> Undef,
     destination |-> Undef]

\* "" + x for a number or a string
concatString(x) == IF x.t = "string" THEN x ELSE Str(ToString(x.v))

\* the field defaulted to '0' and otherwise left as it was submitted
feeUncoerced(x) == IF IsUndef(x) THEN Str(<<"0">>) ELSE x

\* "" + x of constructOps, '0' when the field is undefined
feeString(x) == IF IsUndef(x) THEN Str(<<"0">>) ELSE concatString(x)

\* the source a constructed content ends with
constructedSource(op, publicKeyHash) ==
    IF isSourceOp(op) /\ IsUndef(op.source) THEN Str(publicKeyHash) ELSE op.source

\* the KT1 test made whatever the protocol
rejectsSourceAnyProtocol(op, publicKeyHash, proto005) ==
    /\ op.kind = "transaction"
    /\ startsWith(toLowerCase(constructedSource(op, publicKeyHash).v), <<"k", "t", "1">>)

\* the KT1 test of constructOps on a transaction
rejectsSource(op, publicKeyHash, proto005) ==
    /\ op.kind = "transaction"
    /\ proto005
    /\ startsWith(toLowerCase(constructedSource(op, publicKeyHash).v), <<"k", "t", "1">>)

\* the field left on the content whatever the protocol
deleteNever(x, proto005) == x

\* if (proto005) { delete constructedOp.<field> }
deleteUnder005(x, proto005) == IF proto005 THEN Undef ELSE x

\* one content as constructOps builds it, opCounter being ++counters[publicKeyHash]
constructOp(op, publicKeyHash, opCounter, proto005) ==
    [kind |-> op.kind,
     source |-> constructedSource(op, publicKeyHash),
     fee |-> IF isFeeOp(op) THEN feeString(op.fee) ELSE op.fee,
     gas_limit |-> IF isFeeOp(op) THEN feeString(op.gas_limit) ELSE op.gas_limit,
     storage_limit |-> IF isFeeOp(op) THEN feeString(op.storage_limit) ELSE op.storage_limit,
     counter |-> IF isFeeOp(op) THEN Str(ToString(opCounter)) ELSE op.counter,
     amount |-> IF op.kind = "transaction" /\ ~IsUndef(op.amount)
                THEN concatString(op.amount) ELSE op.amount,
     balance |-> IF op.kind = "origination" /\ ~IsUndef(op.balance)
                 THEN concatString(op.balance) ELSE op.balance,
     manager_pubkey |-> deleteUnder005(op.manager_pubkey, proto005),
     public_key |-> op.public_key,
     spendable |-> deleteUnder005(op.spendable, proto005),
     delegatable |-> deleteUnder005(op.delegatable, proto005),
     destination |-> op.destination]

\* counters[publicKeyHash] after the first i contents of ops
RECURSIVE counterAfter(_, _, _)
counterAfter(ops, i, counter) ==
    IF i = 0 THEN counter
    ELSE counterAfter(ops, i - 1, counter) + (IF isFeeOp(ops[i]) THEN 1 ELSE 0)

constructOps(ops, publicKeyHash, counter, proto005) ==
    [i \in 1..Len(ops) |->
        constructOp(ops[i], publicKeyHash, counterAfter(ops, i, counter), proto005)]

constructOpsThrows(ops, publicKeyHash, proto005) ==
    \E i \in 1..Len(ops) : rejectsSource(ops[i], publicKeyHash, proto005)

\* ops.push(reveal): the reveal goes last
pushReveal(ops, publicKeyHash) == ops \o <<revealOp(publicKeyHash)>>

\* ops.unshift(reveal)
unshiftReveal(ops, publicKeyHash) == <<revealOp(publicKeyHash)>> \o ops

(***************************************************************************)
(* State.                                                                  *)
(***************************************************************************)
VARIABLES
    chainCounter,   \* on-chain counter of the source account (rpc.getContract)
    chainManager,   \* what rpc.getManagerKey answers for the source account
    nextProtocol,   \* next_protocol of the head metadata
    ctxProto,       \* Context._proto, "none" when no hint is configured
    pc,             \* position of the call in progress
    call,           \* the call in progress: entry point and arguments
    loc,            \* local variables of prepareOperation
    log,            \* external calls made by the call so far, in order
    prepared,       \* outcome of prepareOperation
    sub,            \* locals of transfer / originate / setDelegate / registerDelegate
    inj,            \* locals and outcome of inject
    node,           \* the head of the node and the block that holds the operation
    tracker,        \* the fields and observables of one Operation handle
    calls,          \* the calls of confirmation on the handle, in order
    peer,           \* a second Operation handle of the same context: its cached head
    watch,          \* one content of an observed block and the filter applied to it
    feed,           \* newBlock$ and one subscribeOperation: the polls and what they delivered
    contract,       \* a Contract abstraction as its constructor leaves it
    invocation,     \* the last call of contract.methods[name](...args) and what came of it
    contexts,       \* the Context objects there are; the first is the one of the toolkit
    injectedOp,     \* the context an injected operation holds and what its confirmation reads
    subscription,   \* an ObservableSubscription: its listeners and what they were handed
    other           \* a second call of prepareOperation for the same source: its locals

pipeVars == <<sub, inj>>

trackVars == <<node, tracker, calls, peer>>

\* what the calls that build, submit and confirm operations never touch
contractVars == <<contract, invocation>>

contextVars == <<contexts, injectedOp>>

watchVars == <<watch, feed>>

otherVars == <<watchVars, contractVars, contextVars, subscription, other>>

vars == <<chainCounter, chainManager, nextProtocol, ctxProto, pc, call, loc, log, prepared,
          sub, inj, node, tracker, calls, peer, watch, feed,
          contract, invocation, contexts, injectedOp, subscription, other>>

NoCall ==
    [api |-> "none", fee |-> Undef, gasLimit |-> Undef, storageLimit |-> Undef,
     source |-> Undef, to |-> Undef, amount |-> Undef]

NoEstimation == [made |-> FALSE, _gasLimit |-> 0, _storageLimit |-> 0, opSize |-> 0]

NoSub ==
    [phase |-> "none", estimation |-> NoEstimation,
     estimate |-> [fee |-> Undef, gasLimit |-> Undef, storageLimit |-> Undef],
     opbytes |-> 0, failed |-> "none", outcome |-> "none"]

NoAnswer == [array |-> FALSE, groups |-> <<>>]

NoInj ==
    [answered |-> FALSE, answer |-> NoAnswer, opResponse |-> <<>>, errors |-> <<>>,
     outcome |-> "none", error |-> "none", at |-> "none", hash |-> "none"]

NoLoc ==
    [operation |-> <<>>, ops |-> <<>>, publicKeyHash |-> <<>>, requiresReveal |-> FALSE,
     headCounter |-> Undef, manager |-> "undefined", counter |-> 0]

NoPrepared == [status |-> "none", contents |-> <<>>, counter |-> 0, protocol |-> "none"]

\* Number.POSITIVE_INFINITY, the value of _foundAt until the hash is seen
PositiveInfinity == [finite |-> FALSE, v |-> 0]

\* a level as a number
Finite(n) == [finite |-> TRUE, v |-> n]

\* no head: nothing fetched, no promise cached
NoHead == [fetched |-> FALSE, level |-> 0, included |-> FALSE]

\* one subscription to polling$ with what follows it in the pipe: subscribed
\* to _pollingConfig$ and waiting for a value, polling, completed or errored;
\* head is the answer of currentHead$ the switchMap is waiting to hand on
NoPoller ==
    [state |-> "none", interval |-> 0, timeout |-> 0, timeoutAt |-> 0, count |-> 0,
     head |-> NoHead, error |-> "none"]

\* the ReplaySubject(1) before the first next
NoConfig == [set |-> FALSE, interval |-> 0, timeout |-> 0]

\* a handle whose constructor starts the timer with the configuration of the
\* context
PollingOperation ==
    [_foundAt |-> PositiveInfinity,
     _pollingConfig |-> NoConfig,
     _currentHeadPromise |-> NoHead,
     confirmed |-> [NoPoller EXCEPT !.state = "polling", !.interval = 2, !.timeout = 2,
                                    !.timeoutAt = 2]]

\* the handle as the constructor leaves it: confirmed$ is subscribed, its
\* polling$ waits for the first polling configuration
NewOperation ==
    [_foundAt |-> PositiveInfinity,
     _pollingConfig |-> NoConfig,
     _currentHeadPromise |-> NoHead,
     confirmed |-> [NoPoller EXCEPT !.state = "subscribed"]]

\* the node after the injection: head at level 1, the operation in no block
TrackInit ==
    /\ node = [level |-> 1, includedAt |-> 0]
    /\ tracker = NewOperation
    /\ calls = <<>>
    /\ peer = [_currentHeadPromise |-> NoHead]

\* no block observed yet
NoWatch == [phase |-> "none", op |-> Undef, filter |-> Undef, result |-> Undef]

\* newBlock$ before its first subscriber
NoFeed ==
    [state |-> "none", filter |-> Undef, previous |-> Undef, polls |-> 0,
     block |-> Undef, delivered |-> <<>>]

WatchInit == watch = NoWatch /\ feed = NoFeed

\* no contract loaded
NoContract == [loaded |-> FALSE]

\* no method of the contract called yet, nothing sent
NoInvocation ==
    [state |-> "none", name |-> "", args |-> <<>>, class |-> "none", transfers |-> 0]

ContractInit ==
    /\ contract = NoContract
    /\ invocation = NoInvocation

\* defaultConfig
defaultConfig ==
    [confirmationPollingIntervalSecond |-> 10,
     defaultConfirmationCount |-> 0,
     confirmationPollingTimeoutSecond |-> 180]

\* a configuration with none of its keys
NoConfigKeys ==
    [confirmationPollingIntervalSecond |-> Undef,
     defaultConfirmationCount |-> Undef,
     confirmationPollingTimeoutSecond |-> Undef]

\* the setter of Context.config: __assign(__assign({}, defaultConfig), value),
\* a new object with the defaults for the keys the value does not have
configOf(value) ==
    IF value = Undef
    THEN defaultConfig
    ELSE [k \in DOMAIN defaultConfig |-> IF value[k] = Undef THEN defaultConfig[k] ELSE value[k].v]

\* new Context(_rpcClient, _signer, _proto, _config, forger, injector), made
\* as the object number self: a forger and an injector that are not given are
\* made for this context
Context(self, _rpcClient, _signer, _proto, _config, forger, injector) ==
    [_rpcClient |-> _rpcClient,
     _signer |-> _signer,
     _proto |-> _proto,
     _config |-> configOf(_config),
     _forger |-> IF forger = Undef THEN [context |-> self] ELSE forger,
     _injector |-> IF injector = Undef THEN [context |-> self] ELSE injector]

\* no operation injected yet
NoHandle ==
    [injected |-> FALSE, context |-> 0, taken |-> Undef,
     confirmation |-> [called |-> FALSE, rpc |-> "none", interval |-> 0, timeout |-> 0, conf |-> 0]]

\* the toolkit as its constructor leaves it: one Context, with the RpcClient
\* of setProvider, a NoopSigner, no protocol hint and the default configuration
ContextInit ==
    /\ contexts = <<Context(1, "rpc", "NoopSigner", "none", Undef, Undef, Undef)>>
    /\ injectedOp = NoHandle

\* no registration of any callback for any event
NoRegistrations == [type \in {"data", "error", "close"} |-> [cb \in {"cb1", "cb2"} |-> 0]]

\* no ObservableSubscription made: its fields as the constructor will leave
\* them, its source not subscribed
NoSubscription ==
    [state |-> "none",
     messageListeners |-> <<>>, errorListeners |-> <<>>, closeListeners |-> <<>>,
     closes |-> 0,
     lastEvent |-> "none",
     closeCalls |-> 0,
     registered |-> NoRegistrations,
     lastOff |-> <<>>,
     sinceOff |-> FALSE,
     afterClose |-> FALSE,
     afterOff |-> FALSE,
     inexact |-> FALSE,
     failedBeforeClose |-> FALSE]

SubscriptionInit == subscription = NoSubscription

\* the locals of a call of prepareOperation that has not been made
NoOther ==
    [pc |-> "idle", headCounter |-> Undef, counter |-> 0, contents |-> <<>>, reached |-> 0]

OtherCallInit == other = NoOther

\* nothing observed, no contract loaded, nothing injected, nothing subscribed,
\* no second call
OtherInit ==
    /\ WatchInit
    /\ ContractInit
    /\ ContextInit
    /\ SubscriptionInit
    /\ OtherCallInit

ChainInit ==
    /\ chainCounter \in 0..MaxBaseline
    /\ chainManager \in ManagerAnswers
    /\ nextProtocol \in {Proto004, Proto005b}
    /\ ctxProto \in {"none", Proto004, Proto005a}

PipeInit ==
    /\ pc = "idle"
    /\ call = NoCall
    /\ loc = NoLoc
    /\ log = <<>>
    /\ prepared = NoPrepared
    /\ sub = NoSub
    /\ inj = NoInj

CallInit ==
    /\ PipeInit
    /\ TrackInit
    /\ OtherInit

chainVars == <<chainCounter, chainManager, nextProtocol, ctxProto>>

(***************************************************************************)
(* OperationEmitter.prepareOperation, one action per stretch of code       *)
(* between two awaits.                                                     *)
(***************************************************************************)
\* a loop that looks at the content at the given index only
sourceOpAtHead(ops, i) == IF i <= Len(ops) /\ ops[i].kind \in SourceKinds THEN i ELSE 0

RECURSIVE firstSourceOp(_, _)
\* labels 3 and 5: i runs over ops from the given index up to the first
\* transaction, origination or delegation; 0 when the loop ends without one
firstSourceOp(ops, i) ==
    IF i > Len(ops) THEN 0
    ELSE IF ops[i].kind \in SourceKinds THEN i
    ELSE firstSourceOp(ops, i + 1)

\* the for loop of labels 3..5: the first source-bearing content makes the
\* call fetch the counter and leave the loop; without one the call goes to
\* the join
afterPkh(ops, publicKeyHash, l, lg) ==
    IF firstSourceOp(ops, 1) # 0
    THEN /\ loc' = [l EXCEPT !.publicKeyHash = publicKeyHash, !.requiresReveal = TRUE]
         /\ log' = Append(lg, "getContract")
         /\ pc' = "p_contract"
    ELSE /\ loc' = [l EXCEPT !.publicKeyHash = publicKeyHash]
         /\ log' = lg
         /\ pc' = "p_join"

\* label 0: both head requests are issued, then the source is resolved
PrepareStart(operation, source, lg) ==
    /\ prepared' = NoPrepared
    /\ IF IsUndef(source)
       THEN /\ loc' = [NoLoc EXCEPT !.operation = operation, !.ops = operation]
            /\ log' = lg \o <<"getBlockHeader", "getBlockMetadata", "publicKeyHash">>
            /\ pc' = "p_pkh"
       ELSE afterPkh(operation, source.v,
                     [NoLoc EXCEPT !.operation = operation, !.ops = operation],
                     lg \o <<"getBlockHeader", "getBlockMetadata">>)

\* prepareOperation called by the user of the library
PrepareOperation ==
    /\ pc = "idle"
    /\ call' = [NoCall EXCEPT !.api = "prepareOperation"]
    /\ \E operation \in SubmittedLists, source \in {Undef, Str(OtherPkh)} :
          PrepareStart(operation, source, log)
    /\ UNCHANGED <<otherVars, trackVars, chainVars, pipeVars>>

(***************************************************************************)
(* createTransferOperation, with the defaults and the conversion of the    *)
(* amount it applies.                                                      *)
(***************************************************************************)
DEFAULT_GAS_LIMIT == [DELEGATION |-> 10600, ORIGINATION |-> 10600, TRANSFER |-> 10600]

DEFAULT_FEE == [DELEGATION |-> 1257, ORIGINATION |-> 10000, TRANSFER |-> 10000]

DEFAULT_STORAGE_LIMIT == [DELEGATION |-> 0, ORIGINATION |-> 257, TRANSFER |-> 300]

\* the parameter left undefined
withoutDefault(x, d) == x

\* a destructuring default: x === void 0 ? d : x
orDefault(x, d) == IF IsUndef(x) THEN Num(d) ELSE x

\* a number with e digits after the decimal point: c / 10^e
Decimal(c, e) == [t |-> "number", c |-> c, e |-> e]

TZ_DECIMALS == 6

MTZ_DECIMALS == 3

getDecimal(unit) ==
    CASE unit = "tz" -> TZ_DECIMALS
      [] unit = "mtz" -> MTZ_DECIMALS
      [] OTHER -> 0

RECURSIVE pow10(_)
\* Math.pow(10, n)
pow10(n) == IF n = 0 THEN 1 ELSE 10 * pow10(n - 1)

RECURSIVE normalized(_)
\* a BigNumber without trailing zeros after the decimal point
normalized(x) ==
    IF x.e > 0 /\ x.c % 10 = 0 THEN normalized(Decimal(x.c \div 10, x.e - 1)) ELSE x

\* new BigNumber(amount).multipliedBy(10^from).dividedBy(10^to)
format(from, to, amount) ==
    normalized(Decimal(amount.c * pow10(getDecimal(from)), amount.e + getDecimal(to)))

RECURSIVE zeroPadded(_, _)
\* the digits of n, at least width of them
zeroPadded(n, width) ==
    IF width <= 1 THEN ToString(n)
    ELSE zeroPadded(n \div 10, width - 1) \o <<DigitChar[(n % 10) + 1]>>

\* BigNumber.toString() of a non-negative value
toString(x) ==
    LET n == normalized(x)
    IN  IF n.e = 0 THEN ToString(n.c)
        ELSE ToString(n.c \div pow10(n.e)) \o <<".">> \o zeroPadded(n.c % pow10(n.e), n.e)

\* the amount of one tez
OneTez == Decimal(1, 0)

\* mutez is left at its default, false
createTransferOperation(params) ==
    [Content("transaction", Undef,
             orDefault(params.fee, DEFAULT_FEE.TRANSFER),
             orDefault(params.gasLimit, DEFAULT_GAS_LIMIT.TRANSFER),
             orDefault(params.storageLimit, DEFAULT_STORAGE_LIMIT.TRANSFER),
             Str(toString(format("tz", "mutez", params.amount))), Undef, Undef)
        EXCEPT !.destination = params.to]

\* the amounts in tez a transfer is built with: 1.5 and 1
TransferAmounts == {Decimal(15, 1), OneTez}

\* createTransferOperation({to, amount}) and prepareOperation of its result,
\* called by the user of the library
PrepareTransfer ==
    /\ pc = "idle"
    /\ \E amount \in TransferAmounts :
          LET params == [NoCall EXCEPT !.api = "prepareOperation", !.to = Str(OtherPkh),
                                       !.amount = amount]
          IN  /\ call' = params
              /\ PrepareStart(<<createTransferOperation(params)>>, Undef, log)
    /\ UNCHANGED <<otherVars, trackVars, chainVars, pipeVars>>

\* label 1..2: signer.publicKeyHash() has answered
PreparePkh ==
    /\ pc = "p_pkh"
    /\ afterPkh(loc.ops, SignerPkh, loc, log)
    /\ UNCHANGED <<otherVars, trackVars, chainVars, call, prepared, pipeVars>>

\* label 4: getContract has answered; getManagerKey is issued
PrepareContract ==
    /\ pc = "p_contract"
    /\ loc' = [loc EXCEPT !.headCounter = Str(ToString(chainCounter))]
    /\ log' = Append(log, "getManagerKey")
    /\ pc' = "p_join"
    /\ UNCHANGED <<otherVars, trackVars, chainVars, call, prepared, pipeVars>>

\* counter = parseInt(headCounter || '0', 10)
baselineOf(headCounter) == IF IsUndef(headCounter) THEN parseInt(<<"0">>) ELSE parseInt(headCounter.v)

\* label 9: the counter baseline is set and isAnyProtocolActive is called,
\* which asks the node for the metadata only when no hint is configured
toProto(l, lg) ==
    /\ loc' = [l EXCEPT !.counter = baselineOf(l.headCounter)]
    /\ log' = IF ctxProto = "none" THEN Append(lg, "getBlockMetadata") ELSE lg
    /\ pc' = "p_proto"

\* label 7: Promise.all has answered with header, metadata, counter and manager
PrepareJoin ==
    /\ pc = "p_join"
    /\ \E header \in {"header", "undefined"}, metadata \in {"metadata", "undefined"} :
          IF header = "undefined" \/ metadata = "undefined"
          THEN /\ prepared' = [NoPrepared EXCEPT !.status = "threw"]
               /\ pc' = "p_threw"
               /\ UNCHANGED <<loc, log>>
          ELSE LET manager == IF loc.requiresReveal THEN chainManager ELSE "undefined"
                   l == [loc EXCEPT !.manager = manager]
               IN  /\ prepared' = prepared
                   /\ IF loc.requiresReveal /\ ~haveManager(manager)
                      THEN /\ loc' = l
                           /\ log' = Append(log, "publicKey")
                           /\ pc' = "p_reveal"
                      ELSE toProto(l, log)
    /\ UNCHANGED <<otherVars, trackVars, chainVars, call, pipeVars>>

\* label 8: signer.publicKey() has answered; the reveal goes first
PrepareReveal ==
    /\ pc = "p_reveal"
    /\ toProto([loc EXCEPT !.ops = unshiftReveal(loc.ops, loc.publicKeyHash)], log)
    /\ UNCHANGED <<otherVars, trackVars, chainVars, call, prepared, pipeVars>>

\* the decision that looks at the live head whatever the hint
liveProtocolActive(protocol) == nextProtocol \in protocol

\* Context.isAnyProtocolActive(protocols['005'])
isAnyProtocolActive(protocol) ==
    IF ctxProto # "none" THEN ctxProto \in protocol ELSE nextProtocol \in protocol

\* the counters another call of prepareOperation has reached, as the map of
\* this call
countersOfOtherCall == IF other.pc = "returned" THEN Num(other.reached) ELSE Undef

\* counters = {} of label 0: every call makes its own map, which has no entry
\* for the source
newCounters == Undef

\* label 9: if (!counters[publicKeyHash] || counters[publicKeyHash] < counter)
\* counters[publicKeyHash] = counter
startCounter(counters, counter) ==
    IF IsUndef(counters) \/ counters.v = 0 \/ counters.v < counter THEN counter ELSE counters.v

\* label 10: constructOps and the return value
PrepareConstruct ==
    /\ pc = "p_proto"
    /\ LET proto005 == isAnyProtocolActive(protocols005)
       IN  IF constructOpsThrows(loc.ops, loc.publicKeyHash, proto005)
           THEN /\ prepared' = [NoPrepared EXCEPT !.status = "threw"]
                /\ pc' = "p_threw"
           ELSE /\ prepared' =
                     [status |-> "returned",
                      contents |-> constructOps(loc.ops, loc.publicKeyHash,
                                                startCounter(newCounters, loc.counter), proto005),
                      counter |-> loc.counter,
                      protocol |-> nextProtocol]
                /\ pc' = "p_returned"
    /\ UNCHANGED <<otherVars, trackVars, chainVars, call, loc, log, pipeVars>>

\* the caller of prepareOperation has taken the outcome
PrepareDone ==
    /\ pc \in {"p_returned", "p_threw"}
    /\ call.api = "prepareOperation"
    /\ pc' = "idle"
    /\ call' = NoCall
    /\ loc' = NoLoc
    /\ log' = <<>>
    /\ prepared' = NoPrepared
    /\ UNCHANGED <<otherVars, trackVars, chainVars, pipeVars>>

(***************************************************************************)
(* A second call of prepareOperation, of one transfer with the signer's    *)
(* address given as the source, made while the first is idle or in flight: *)
(* its steps are those of the first call that touch the counter.           *)
(***************************************************************************)
\* labels 0..3: the source is given and the content is a transaction, so
\* getContract is called
OtherPrepare ==
    /\ other.pc \in {"idle", "returned", "threw"}
    /\ other' = [NoOther EXCEPT !.pc = "o_contract"]
    /\ UNCHANGED <<trackVars, chainVars, pc, call, loc, log, prepared, pipeVars, watchVars,
                   contractVars, contextVars, subscription>>

\* label 4: getContract has answered
OtherContract ==
    /\ other.pc = "o_contract"
    /\ other' = [other EXCEPT !.pc = "o_join", !.headCounter = Str(ToString(chainCounter))]
    /\ UNCHANGED <<trackVars, chainVars, pc, call, loc, log, prepared, pipeVars, watchVars,
                   contractVars, contextVars, subscription>>

\* labels 7..10: the manager key has answered, a reveal goes first if the key
\* is not there, the counters are set and the contents are constructed
OtherConstruct ==
    /\ other.pc = "o_join"
    /\ LET transfer == createTransferOperation(
                           [NoCall EXCEPT !.api = "prepareOperation", !.to = Str(OtherPkh),
                                          !.amount = OneTez])
           ops == IF haveManager(chainManager)
                  THEN <<transfer>> ELSE unshiftReveal(<<transfer>>, SignerPkh)
           counter == baselineOf(other.headCounter)
           proto005 == isAnyProtocolActive(protocols005)
           contents == constructOps(ops, SignerPkh, startCounter(newCounters, counter), proto005)
       IN  other' = IF constructOpsThrows(ops, SignerPkh, proto005)
                    THEN [other EXCEPT !.pc = "threw"]
                    ELSE [other EXCEPT !.pc = "returned", !.counter = counter,
                                       !.contents = contents,
                                       !.reached = counterAfter(ops, Len(ops),
                                                       startCounter(newCounters, counter))]
    /\ UNCHANGED <<trackVars, chainVars, pc, call, loc, log, prepared, pipeVars, watchVars,
                   contractVars, contextVars, subscription>>

(***************************************************************************)
(* The chain between two calls: operations of the account are included     *)
(* (the counter rises) and its key is revealed.                            *)
(***************************************************************************)
CounterRises ==
    /\ pc = "idle"
    /\ chainCounter < MaxBaseline
    /\ chainCounter' = chainCounter + 1
    /\ UNCHANGED <<otherVars, trackVars, chainManager, nextProtocol, ctxProto, pc, call, loc, log, prepared,
                   pipeVars>>

KeyRevealed ==
    /\ pc = "idle"
    /\ ~ManagerRevealed(chainManager)
    /\ chainManager' = IF chainManager = "null" THEN "key" ELSE "object_with_key"
    /\ UNCHANGED <<otherVars, trackVars, chainCounter, nextProtocol, ctxProto, pc, call, loc, log, prepared,
                   pipeVars>>

(***************************************************************************)
(* prepareOperation called on its own, again and again, against a chain    *)
(* that moves between the calls.                                           *)
(***************************************************************************)
InitPrepare == ChainInit /\ CallInit

NextPrepare ==
    \/ PrepareOperation
    \/ PrepareTransfer
    \/ PreparePkh
    \/ PrepareContract
    \/ PrepareJoin
    \/ PrepareReveal
    \/ PrepareConstruct
    \/ PrepareDone
    \/ CounterRises
    \/ KeyRevealed

SpecPrepare == InitPrepare /\ [][NextPrepare]_vars

(***************************************************************************)
(* Two calls of prepareOperation for the same source, one after the other  *)
(* or interleaved, against a chain that moves.                             *)
(***************************************************************************)
NextTwoPrepares ==
    \/ PrepareTransfer
    \/ PreparePkh
    \/ PrepareContract
    \/ PrepareJoin
    \/ PrepareReveal
    \/ PrepareConstruct
    \/ PrepareDone
    \/ OtherPrepare
    \/ OtherContract
    \/ OtherConstruct
    \/ CounterRises
    \/ KeyRevealed

SpecTwoPrepares == InitPrepare /\ [][NextTwoPrepares]_vars

(***************************************************************************)
(* Claims about prepareOperation (SpecPrepare).                            *)
(***************************************************************************)
Returned == pc = "p_returned" /\ prepared.status = "returned"

feeContents(contents) == SelectSeq(contents, isFeeOp)

hasSourceOp(ops) == \E i \in 1..Len(ops) : isSourceOp(ops[i])

revealPrepended ==
    /\ Len(prepared.contents) = Len(loc.operation) + 1
    /\ prepared.contents[1].kind = "reveal"
    /\ prepared.contents[1].public_key = Str(SignerPublicKey)

\* C1: in every prepared group the counters of the fee-bearing contents, read
\* left to right, are B+1, B+2, ..., B+k, B being the on-chain counter of the
\* resolved source account, and no other content carries a counter
C1_CountersFromBaseline ==
    Returned =>
        /\ \A i \in 1..Len(feeContents(prepared.contents)) :
              feeContents(prepared.contents)[i].counter = Str(ToString(chainCounter + i))
        /\ \A i \in 1..Len(prepared.contents) :
              ~isFeeOp(prepared.contents[i]) => IsUndef(prepared.contents[i].counter)

\* C2: a reveal is prepended if and only if a submitted content is
\* source-bearing and the manager key of the source is unset; so no call
\* against a revealed account ever yields a prepended reveal
C2_RevealIffNeeded ==
    Returned =>
        /\ revealPrepended <=> (hasSourceOp(loc.operation) /\ ~ManagerRevealed(chainManager))
        /\ ~revealPrepended => Len(prepared.contents) = Len(loc.operation)

C2_Witness == Returned /\ revealPrepended /\ chainManager = "object_without_key"

\* C3: the prepared contents are the submitted contents in the submitted
\* order, preceded by at most one reveal, which is then the first entry
C3_OrderPreserved ==
    Returned =>
        LET n == Len(loc.operation)
            off == Len(prepared.contents) - n
        IN  /\ off \in {0, 1}
            /\ off = 1 => revealPrepended
            /\ \A i \in 1..n :
                  /\ prepared.contents[off + i].kind = loc.operation[i].kind
                  /\ prepared.contents[off + i].manager_pubkey \in
                        {loc.operation[i].manager_pubkey, Undef}
                  /\ ~IsUndef(loc.operation[i].source) =>
                        prepared.contents[off + i].source = loc.operation[i].source

C3_Witness ==
    /\ Returned
    /\ Len(loc.operation) = 2
    /\ Len(prepared.contents) = 3
    /\ prepared.contents[1].kind = "reveal"
    /\ loc.operation[1].kind # loc.operation[2].kind

(***************************************************************************)
(* OperationEmitter.inject: preapply, the scan for failed contents, and    *)
(* the injection.                                                          *)
(***************************************************************************)
\* most contents in one group of a preapply answer
MaxResults == 2

ErrorsArray(es) == [t |-> "array", v |-> es]

ContentResult(status, errors) == [status |-> status, errors |-> errors]

\* what the node may report for one content: applied, failed with one or two
\* errors, failed with an empty or a missing errors array, or no metadata
ContentResults ==
    { ContentResult("applied", Undef),
      ContentResult("failed", ErrorsArray(<<"e1">>)),
      ContentResult("failed", ErrorsArray(<<"e2", "e3">>)),
      ContentResult("failed", ErrorsArray(<<>>)),
      ContentResult("failed", Undef),
      ContentResult("no_metadata", Undef) }

ResultGroups == SeqsUpTo(ContentResults, MaxResults) \ {<<>>}

\* an answer that is no array, e.g. an error object of the node
NotArray == [array |-> FALSE, groups |-> <<>>]

\* the answers of rpc.preapplyOperations: no array, one group, or two groups
PreapplyAnswers ==
    {NotArray}
        \cup {[array |-> TRUE, groups |-> <<g>>] : g \in ResultGroups}
        \cup {[array |-> TRUE, groups |-> <<g, <<r>>>>] : g \in ResultGroups, r \in ContentResults}

\* every answer as an array, the Array.isArray test left out
isArrayAlways(results) == TRUE

\* Array.isArray(results)
isArray(results) == results.array

\* opResponse: results[i].contents[j] for i, j in order
RECURSIVE opResponseOf(_)
opResponseOf(groups) ==
    IF Len(groups) = 0 THEN <<>>
    ELSE groups[1] \o opResponseOf(Tail(groups))

\* errors.concat(x): the elements of an array, anything else as one element
concatErrors(errors, x) == IF x.t = "array" THEN errors \o x.v ELSE Append(errors, x.t)

\* the errors gathered from the failed contents, in result order
RECURSIVE errorsOf(_)
errorsOf(contents) ==
    IF Len(contents) = 0 THEN <<>>
    ELSE LET rest == errorsOf(SubSeq(contents, 1, Len(contents) - 1))
             content == contents[Len(contents)]
         IN  IF content.status = "failed" THEN concatErrors(rest, content.errors) ELSE rest

\* inject called by the user of the library (as signAndBroadcast does)
InjectCall ==
    /\ pc = "idle"
    /\ call' = [NoCall EXCEPT !.api = "inject"]
    /\ inj' = NoInj
    /\ log' = <<"preapplyOperations">>
    /\ pc' = "preapply"
    /\ UNCHANGED <<otherVars, trackVars, chainVars, loc, prepared, sub>>

\* label 1 of inject: preapplyOperations has answered
Preapplied(answers) ==
    /\ pc = "preapply"
    /\ \E rejected \in BOOLEAN, results \in answers :
          IF rejected
          THEN /\ inj' = [inj EXCEPT !.outcome = "threw", !.error = "rejected",
                                     !.at = "preapplyOperations"]
               /\ pc' = "s_failed"
               /\ log' = log
          ELSE IF ~isArray(results)
          THEN /\ inj' = [inj EXCEPT !.answered = TRUE, !.answer = results,
                                     !.outcome = "threw", !.error = "RPC Fail",
                                     !.at = "preapplyOperations"]
               /\ pc' = "s_failed"
               /\ log' = log
          ELSE LET opResponse == opResponseOf(results.groups)
                   errors == errorsOf(opResponse)
               IN  IF Len(errors) > 0
                   THEN /\ inj' = [inj EXCEPT !.answered = TRUE, !.answer = results,
                                              !.opResponse = opResponse, !.errors = errors,
                                              !.outcome = "threw",
                                              !.error = "Operation Failed",
                                              !.at = "preapplyOperations"]
                        /\ pc' = "s_failed"
                        /\ log' = log
                   ELSE /\ inj' = [inj EXCEPT !.answered = TRUE, !.answer = results,
                                              !.opResponse = opResponse]
                        /\ pc' = "injecting"
                        /\ log' = Append(log, "inject")
    /\ UNCHANGED <<otherVars, trackVars, chainVars, call, loc, prepared, sub>>

\* label 2 of inject: the injector has answered with the operation hash
Injected ==
    /\ pc = "injecting"
    /\ \E rejected \in BOOLEAN :
          IF rejected
          THEN /\ inj' = [inj EXCEPT !.outcome = "threw", !.error = "rejected",
                                     !.at = "inject"]
               /\ pc' = "s_failed"
          ELSE /\ inj' = [inj EXCEPT !.outcome = "returned", !.hash = "op_hash"]
               /\ pc' = "s_done"
    /\ UNCHANGED <<otherVars, trackVars, chainVars, call, loc, log, prepared, sub>>

\* the caller has taken the outcome of the call
CallDone ==
    /\ \/ pc \in {"s_done", "s_failed"}
       \/ pc = "p_threw" /\ call.api # "prepareOperation"
    /\ pc' = "idle"
    /\ call' = NoCall
    /\ loc' = NoLoc
    /\ log' = <<>>
    /\ prepared' = NoPrepared
    /\ sub' = NoSub
    /\ inj' = NoInj
    /\ UNCHANGED <<otherVars, trackVars, chainVars>>

InitInject ==
    /\ chainCounter = 0
    /\ chainManager = "key"
    /\ nextProtocol = Proto005b
    /\ ctxProto = "none"
    /\ CallInit

NextInject ==
    \/ InjectCall
    \/ Preapplied(PreapplyAnswers)
    \/ Injected
    \/ CallDone

SpecInject == InitInject /\ [][NextInject]_vars

(***************************************************************************)
(* Claims about inject (SpecInject).                                       *)
(***************************************************************************)
Count(seq, x) == Cardinality({i \in 1..Len(seq) : seq[i] = x})

someFailed(contents) == \E i \in 1..Len(contents) : contents[i].status = "failed"

\* every failed content carries an errors array
allArrays(contents) ==
    \A i \in 1..Len(contents) :
        contents[i].status = "failed" => contents[i].errors.t = "array"

\* the errors arrays of the failed contents, one after the other
RECURSIVE failedErrors(_)
failedErrors(contents) ==
    IF Len(contents) = 0 THEN <<>>
    ELSE (IF contents[1].status = "failed" /\ contents[1].errors.t = "array"
          THEN contents[1].errors.v ELSE <<>>) \o failedErrors(Tail(contents))

\* C4: the injector is called only after preapply has answered an array in
\* which no content is failed; with a failed content the call fails with one
\* error carrying the errors of all failed contents in result order, and the
\* injector is not called
C4_NoInjectionAfterFailedPreapply ==
    /\ Count(log, "inject") > 0 =>
          /\ inj.answered
          /\ inj.answer.array
          /\ ~someFailed(opResponseOf(inj.answer.groups))
    /\ (inj.answered /\ inj.answer.array /\ someFailed(opResponseOf(inj.answer.groups))) =>
          /\ inj.outcome = "threw"
          /\ inj.error = "Operation Failed"
          /\ allArrays(opResponseOf(inj.answer.groups)) =>
                inj.errors = failedErrors(opResponseOf(inj.answer.groups))
          /\ Count(log, "inject") = 0

\* C6: when preapply answers anything that is no array, inject fails at once
\* with an RPC error, preapply is not called again and the injector is not called
C6_NonArrayPreapplyFails ==
    (call.api = "inject" /\ inj.answered /\ ~inj.answer.array) =>
        /\ pc = "s_failed"
        /\ inj.outcome = "threw"
        /\ inj.error = "RPC Fail"
        /\ Count(log, "preapplyOperations") = 1
        /\ Count(log, "inject") = 0

C6_Witness == call.api = "inject" /\ inj.answered /\ ~inj.answer.array /\ pc = "s_failed"

(***************************************************************************)
(* RpcContractProvider.transfer / originate / setDelegate /                *)
(* registerDelegate and the RPCEstimateProvider methods they estimate      *)
(* with.                                                                   *)
(***************************************************************************)
SubmitApis == {"transfer", "originate", "setDelegate", "registerDelegate"}

EstimateApis ==
    {"estimate.transfer", "estimate.originate", "estimate.setDelegate",
     "estimate.registerDelegate"}

\* the method of the estimate provider a call ends in
estimatorOf(api) ==
    CASE api \in {"transfer", "estimate.transfer"} -> "transfer"
      [] api \in {"originate", "estimate.originate"} -> "originate"
      [] api \in {"setDelegate", "estimate.setDelegate"} -> "setDelegate"
      [] api \in {"registerDelegate", "estimate.registerDelegate"} -> "registerDelegate"

\* maximum values defined by the protocol
DEFAULT_PARAMS == [fee |-> Num(30000), storageLimit |-> Num(60000), gasLimit |-> Num(800000)]

\* __assign(__assign({}, params), values)
assign(params, values) ==
    [params EXCEPT !.fee = values.fee, !.gasLimit = values.gasLimit,
                   !.storageLimit = values.storageLimit]

createOriginationOperation(params, publicKeyHash) ==
    withFlags(Content("origination", Undef,
                      orDefault(params.fee, DEFAULT_FEE.ORIGINATION),
                      orDefault(params.gasLimit, DEFAULT_GAS_LIMIT.ORIGINATION),
                      orDefault(params.storageLimit, DEFAULT_STORAGE_LIMIT.ORIGINATION),
                      Undef, Str(ToString(0)), Str(publicKeyHash)),
              FALSE, FALSE)

createSetDelegateOperation(params) ==
    Content("delegation", params.source,
            orDefault(params.fee, DEFAULT_FEE.DELEGATION),
            orDefault(params.gasLimit, DEFAULT_GAS_LIMIT.DELEGATION),
            orDefault(params.storageLimit, DEFAULT_STORAGE_LIMIT.DELEGATION),
            Undef, Undef, Undef)

createRegisterDelegateOperation(params, source) ==
    Content("delegation", Undef,
            orDefault(params.fee, DEFAULT_FEE.DELEGATION),
            orDefault(params.gasLimit, DEFAULT_GAS_LIMIT.DELEGATION),
            orDefault(params.storageLimit, DEFAULT_STORAGE_LIMIT.DELEGATION),
            Undef, Undef, Undef)

\* !!source
truthy(source) == ~IsUndef(source) /\ Len(source.v) > 0

\* params.source || (await this.signer.publicKeyHash())
sourceOrDefault(source) == IF truthy(source) THEN source ELSE Str(SignerPkh)

\* the calls of signer.publicKeyHash() that evaluating source || ... makes
pkhCalls(source) == IF truthy(source) THEN <<>> ELSE <<"publicKeyHash">>

\* String(x) of a string or undefined
String(x) == IF IsUndef(x) THEN <<"u", "n", "d", "e", "f", "i", "n", "e", "d">> ELSE x.v

\* /kt1/i.test(source)
kt1Test(source) ==
    LET str == toLowerCase(String(source))
    IN  \E i \in 1..Len(str) - 2 : SubSeq(str, i, i + 2) = <<"k", "t", "1">>

\* what a method of RPCEstimateProvider hands to createEstimate, and the
\* calls of the signer it makes before
estimator(method, params) ==
    CASE method = "transfer" ->
           [operation |-> createTransferOperation(assign(params, DEFAULT_PARAMS)),
            source |-> sourceOrDefault(params.source),
            signer |-> pkhCalls(params.source),
            kind |-> "transaction",
            defaultStorage |-> DEFAULT_STORAGE_LIMIT.TRANSFER,
            minimumGas |-> 0]
      [] method = "originate" ->
           [operation |-> createOriginationOperation(assign(params, DEFAULT_PARAMS), SignerPkh),
            source |-> Str(SignerPkh),
            signer |-> <<"publicKeyHash">>,
            kind |-> "origination",
            defaultStorage |-> DEFAULT_STORAGE_LIMIT.ORIGINATION,
            minimumGas |-> 0]
      [] method = "setDelegate" ->
           [operation |-> createSetDelegateOperation(assign(params, DEFAULT_PARAMS)),
            source |-> sourceOrDefault(params.source),
            signer |-> pkhCalls(params.source),
            kind |-> "delegation",
            defaultStorage |-> DEFAULT_STORAGE_LIMIT.DELEGATION,
            minimumGas |-> DEFAULT_GAS_LIMIT.DELEGATION]
      [] method = "registerDelegate" ->
           [operation |-> createRegisterDelegateOperation(assign(params, DEFAULT_PARAMS),
                                                          SignerPkh),
            source |-> Str(SignerPkh),
            signer |-> <<"publicKeyHash", "publicKeyHash">>,
            kind |-> "delegation",
            defaultStorage |-> DEFAULT_STORAGE_LIMIT.DELEGATION,
            minimumGas |-> DEFAULT_GAS_LIMIT.DELEGATION]

\* what a method of RpcContractProvider hands to prepareOperation once the
\* limits are known, and the calls of the signer it makes before
submission(method, params, limits) ==
    CASE method = "transfer" ->
           [operation |-> createTransferOperation(assign(params, limits)),
            source |-> params.source,
            signer |-> pkhCalls(params.source)]
      [] method = "originate" ->
           [operation |-> createOriginationOperation(assign(params, limits), SignerPkh),
            source |-> Str(SignerPkh),
            signer |-> <<"publicKeyHash">>]
      [] method = "setDelegate" ->
           [operation |-> createSetDelegateOperation(assign(params, limits)),
            source |-> sourceOrDefault(params.source),
            signer |-> pkhCalls(params.source)]
      [] method = "registerDelegate" ->
           [operation |-> createRegisterDelegateOperation(assign(params, limits), SignerPkh),
            source |-> Undef,
            signer |-> <<"publicKeyHash">>]

(***************************************************************************)
(* Estimate and RPCEstimateProvider.createEstimate.                        *)
(***************************************************************************)
MINIMAL_FEE_MUTEZ == 100

MINIMAL_FEE_PER_BYTE_MUTEZ == 1

\* MINIMAL_FEE_PER_GAS_MUTEZ is 0.1, one mutez for this many units of gas
GAS_PER_MUTEZ == 10

GAS_BUFFER == 100

Max(a, b) == IF a > b THEN a ELSE b

\* Math.ceil(n / d) for n >= 0 and d > 0
CeilDiv(n, d) == (n + d - 1) \div d

\* Number(x) || 0 of a decimal string or undefined
NumberOr0(x) == IF IsUndef(x) THEN 0 ELSE parseInt(x.v)

\* one operation result of a dry run
OperationResult(gas, paid) == [consumed_gas |-> gas, paid_storage_size_diff |-> paid]

\* getOperationResult of the answers of rpc.runOperation: no result for the
\* kind, one result that pays no storage, a result with an internal result
RunAnswers ==
    { <<>>,
      <<OperationResult(Str(ToString(10207)), Undef)>>,
      <<OperationResult(Str(ToString(15)), Str(ToString(2))),
        OperationResult(Undef, Str(ToString(41)))>> }

RECURSIVE totalGas(_)
totalGas(operationResults) ==
    IF Len(operationResults) = 0 THEN 0
    ELSE NumberOr0(operationResults[1].consumed_gas) + totalGas(Tail(operationResults))

RECURSIVE totalStorage(_)
totalStorage(operationResults) ==
    IF Len(operationResults) = 0 THEN 0
    ELSE NumberOr0(operationResults[1].paid_storage_size_diff)
            + totalStorage(Tail(operationResults))

\* the estimate made with totalGas || minimumGas
createEstimateGasOrMinimum(operationResults, defaultStorage, minimumGas, opbytes) ==
    [made |-> TRUE,
     _gasLimit |-> IF totalGas(operationResults) = 0 THEN minimumGas
                   ELSE totalGas(operationResults),
     _storageLimit |-> totalStorage(operationResults) + defaultStorage,
     opSize |-> opbytes \div 2]

\* new Estimate(Math.max(totalGas || 0, minimumGas),
\*              Number(totalStorage || 0) + defaultStorage, opbytes.length / 2)
createEstimate(operationResults, defaultStorage, minimumGas, opbytes) ==
    [made |-> TRUE,
     _gasLimit |-> Max(totalGas(operationResults), minimumGas),
     _storageLimit |-> totalStorage(operationResults) + defaultStorage,
     opSize |-> opbytes \div 2]

\* Estimate.storageLimit
storageLimit(e) == LET limit == Max(e._storageLimit, 0) IN IF limit > 0 THEN limit ELSE 0

\* the raw gas without the buffer
gasLimitUnbuffered(e) == e._gasLimit

\* Estimate.gasLimit
gasLimit(e) == e._gasLimit + GAS_BUFFER

MINIMAL_FEE_PER_STORAGE_BYTE_MUTEZ == 1000

\* Estimate.operationFeeMutez = gasLimit * 0.1 + opSize * 1, in tenths of a mutez
operationFeeTenths(e) ==
    gasLimit(e) + GAS_PER_MUTEZ * e.opSize * MINIMAL_FEE_PER_BYTE_MUTEZ

\* Estimate.minimalFeeMutez: roundUp(MINIMAL_FEE_MUTEZ + operationFeeMutez)
minimalFeeMutez(e) ==
    CeilDiv(GAS_PER_MUTEZ * MINIMAL_FEE_MUTEZ + operationFeeTenths(e), GAS_PER_MUTEZ)

\* Estimate.burnFeeMutez: roundUp(storageLimit * MINIMAL_FEE_PER_STORAGE_BYTE_MUTEZ)
burnFeeMutez(e) == storageLimit(e) * MINIMAL_FEE_PER_STORAGE_BYTE_MUTEZ

\* Estimate.totalCost
totalCost(e) == minimalFeeMutez(e) + burnFeeMutez(e)

\* Estimate.suggestedFeeMutez: roundUp(operationFeeMutez + MINIMAL_FEE_MUTEZ * 2) with
\* operationFeeMutez = gasLimit * 0.1 + opSize * 1, in tenths of a mutez
suggestedFeeMutez(e) ==
    CeilDiv(gasLimit(e) + GAS_PER_MUTEZ * e.opSize * MINIMAL_FEE_PER_BYTE_MUTEZ
                + GAS_PER_MUTEZ * MINIMAL_FEE_MUTEZ * 2,
            GAS_PER_MUTEZ)

\* fee === undefined || gasLimit === undefined || storageLimit === undefined
needsEstimation(params) ==
    IsUndef(params.fee) \/ IsUndef(params.gasLimit) \/ IsUndef(params.storageLimit)

\* the estimated value wherever the caller's value is falsy, 0 included
calculatedOrFalsy(given, estimated) ==
    IF IsUndef(given) \/ given = Num(0) THEN Num(estimated) ELSE given

\* calculatedX = x; if (calculatedX === undefined) calculatedX = estimation.X
calculated(given, estimated) == IF IsUndef(given) THEN Num(estimated) ELSE given

\* RpcContractProvider.estimate, estimation being what the estimator answered
estimate(params, estimation) ==
    IF needsEstimation(params)
    THEN [fee |-> calculated(params.fee, suggestedFeeMutez(estimation)),
          gasLimit |-> calculated(params.gasLimit, gasLimit(estimation)),
          storageLimit |-> calculated(params.storageLimit, storageLimit(estimation))]
    ELSE [fee |-> params.fee, gasLimit |-> params.gasLimit,
          storageLimit |-> params.storageLimit]

(***************************************************************************)
(* The calls, one action per stretch of code between two awaits.           *)
(***************************************************************************)
\* the values a caller gives for fee, gasLimit and storageLimit
ParamValues == {Undef, Num(0), Num(5)}

\* the lengths of the hex strings the forger answers
ForgedLengths == {192, 302}

\* the estimator is called: the method makes its calls of the signer and
\* createEstimate starts with prepareAndForge
beginEstimate(params, lg) ==
    LET e == estimator(estimatorOf(params.api), params)
    IN  /\ sub' = [NoSub EXCEPT !.phase = "estimate"]
        /\ PrepareStart(<<e.operation>>, e.source, lg \o e.signer)

\* estimate has returned: the operation is created with the limits and handed
\* to prepareOperation
beginSubmit(params, estimation, lg) ==
    LET limits == estimate(params, estimation)
        o == submission(estimatorOf(params.api), params, limits)
    IN  /\ sub' = [NoSub EXCEPT !.phase = "submit", !.estimation = estimation,
                                !.estimate = limits]
        /\ PrepareStart(<<o.operation>>, o.source, lg \o o.signer)

\* RpcContractProvider.estimate(params, estimator)
beginCall(params, lg) ==
    IF needsEstimation(params)
    THEN beginEstimate(params, lg)
    ELSE beginSubmit(params, NoEstimation, lg)

\* transfer, originate, setDelegate or registerDelegate is called
SubmitCall(api, fee, gas, storage, source) ==
    LET params == [NoCall EXCEPT !.api = api, !.fee = fee, !.gasLimit = gas,
                                 !.storageLimit = storage, !.source = source,
                                 !.to = Str(OtherPkh), !.amount = OneTez]
    IN  /\ pc = "idle"
        /\ api \in SubmitApis
        /\ call' = params
        /\ inj' = NoInj
        /\ IF api = "setDelegate"
           THEN /\ log' = IF ctxProto = "none" THEN <<"getBlockMetadata">> ELSE <<>>
                /\ pc' = "s_proto"
                /\ sub' = NoSub
                /\ UNCHANGED <<loc, prepared>>
           ELSE beginCall(params, <<>>)
        /\ UNCHANGED <<otherVars, trackVars, chainVars>>

\* a method of the estimate provider is called by the user of the library
EstimateCall(api, source) ==
    LET params == [NoCall EXCEPT !.api = api, !.source = source,
                                 !.to = Str(OtherPkh), !.amount = OneTez]
    IN  /\ pc = "idle"
        /\ api \in EstimateApis
        /\ call' = params
        /\ inj' = NoInj
        /\ beginEstimate(params, <<>>)
        /\ UNCHANGED <<otherVars, trackVars, chainVars>>

\* label 1 of setDelegate: isAnyProtocolActive has answered
SetDelegateProto ==
    /\ pc = "s_proto"
    /\ IF isAnyProtocolActive(protocols005) /\ kt1Test(call.source)
       THEN /\ sub' = [sub EXCEPT !.failed = "InvalidDelegationSource"]
            /\ pc' = "s_failed"
            /\ UNCHANGED <<loc, log, prepared>>
       ELSE beginCall(call, log)
    /\ UNCHANGED <<otherVars, trackVars, chainVars, call, inj>>

\* prepareOperation has returned inside prepareAndForge (or to originate):
\* forge calls the forger
Forge ==
    /\ pc = "p_returned"
    /\ call.api # "prepareOperation"
    /\ log' = Append(log, "forge")
    /\ pc' = "forging"
    /\ UNCHANGED <<otherVars, trackVars, chainVars, call, loc, prepared, pipeVars>>

\* the unsigned bytes handed to preapply, signer.sign left out
injectUnsigned(forgedBytes) == [called |-> "preapplyOperations", pc |-> "preapply"]

\* signAndInject: signer.sign is called on the forged bytes
signAndInject(forgedBytes) == [called |-> "sign", pc |-> "signing"]

\* the forger has answered: createEstimate goes on with isAnyProtocolActive,
\* a submission with signAndInject, activate with rpc.injectOperation
Forged ==
    /\ pc = "forging"
    /\ \E rejected \in BOOLEAN, opbytes \in ForgedLengths :
          IF rejected
          THEN /\ sub' = [sub EXCEPT !.failed = "forge"]
               /\ pc' = "s_failed"
               /\ log' = log
          ELSE IF sub.phase = "estimate"
          THEN /\ sub' = [sub EXCEPT !.opbytes = opbytes]
               /\ log' = IF ctxProto = "none" THEN Append(log, "getBlockMetadata") ELSE log
               /\ pc' = "e_proto"
          ELSE IF sub.phase = "activate"
          THEN /\ sub' = [sub EXCEPT !.opbytes = opbytes]
               /\ log' = Append(log, "injectOperation")
               /\ pc' = "a_injecting"
          ELSE /\ sub' = [sub EXCEPT !.opbytes = opbytes]
               /\ log' = Append(log, signAndInject(opbytes).called)
               /\ pc' = signAndInject(opbytes).pc
    /\ UNCHANGED <<otherVars, trackVars, chainVars, call, loc, prepared, inj>>

\* the dry run made with preapplyOperations
simulateByPreapply(lg) == Append(lg, "preapplyOperations")

\* OperationEmitter.simulate: rpc.runOperation(op)
simulate(lg) == Append(lg, "runOperation")

\* label 2 of createEstimate: under protocol 005 the chain id is fetched first
EstimateProto ==
    /\ pc = "e_proto"
    /\ IF isAnyProtocolActive(protocols005)
       THEN /\ log' = Append(log, "getChainId")
            /\ pc' = "e_chain"
       ELSE /\ log' = simulate(log)
            /\ pc' = "simulating"
    /\ UNCHANGED <<otherVars, trackVars, chainVars, call, loc, prepared, pipeVars>>

\* label 3 of createEstimate: getChainId has answered
EstimateChainId ==
    /\ pc = "e_chain"
    /\ log' = simulate(log)
    /\ pc' = "simulating"
    /\ UNCHANGED <<otherVars, trackVars, chainVars, call, loc, prepared, pipeVars>>

\* label 5 of createEstimate: runOperation has answered; the estimate goes
\* to the caller, or to RpcContractProvider.estimate and on to the submission
Simulated ==
    /\ pc = "simulating"
    /\ \E rejected \in BOOLEAN, operationResults \in RunAnswers :
          LET e == estimator(estimatorOf(call.api), call)
              estimation == createEstimate(operationResults, e.defaultStorage,
                                           e.minimumGas, sub.opbytes)
          IN  IF rejected
              THEN /\ sub' = [sub EXCEPT !.failed = "runOperation"]
                   /\ pc' = "s_failed"
                   /\ UNCHANGED <<loc, log, prepared>>
              ELSE IF call.api \in EstimateApis
              THEN /\ sub' = [sub EXCEPT !.estimation = estimation, !.outcome = "estimate"]
                   /\ pc' = "s_done"
                   /\ UNCHANGED <<loc, log, prepared>>
              ELSE beginSubmit(call, estimation, log)
    /\ UNCHANGED <<otherVars, trackVars, chainVars, call, inj>>

\* label 1 of signAndInject: the signer has answered; inject calls preapply
Signed ==
    /\ pc = "signing"
    /\ \E rejected \in BOOLEAN :
          IF rejected
          THEN /\ sub' = [sub EXCEPT !.failed = "sign"]
               /\ pc' = "s_failed"
               /\ log' = log
          ELSE /\ sub' = sub
               /\ log' = Append(log, "preapplyOperations")
               /\ pc' = "preapply"
    /\ inj' = NoInj
    /\ UNCHANGED <<otherVars, trackVars, chainVars, call, loc, prepared>>

\* the answers of preapply to a submission: no array, the operation applied,
\* failed with an error, failed with no error
SubmitAnswers ==
    { NotArray,
      [array |-> TRUE, groups |-> <<<<ContentResult("applied", Undef)>>>>],
      [array |-> TRUE, groups |-> <<<<ContentResult("failed", ErrorsArray(<<"e1">>))>>>>],
      [array |-> TRUE, groups |-> <<<<ContentResult("failed", ErrorsArray(<<>>))>>>>] }

InitSubmit ==
    /\ chainCounter = MaxBaseline
    /\ chainManager \in {"null", "key"}
    /\ nextProtocol \in {Proto004, Proto005b}
    /\ ctxProto \in {"none", Proto005a}
    /\ CallInit

NextSubmit ==
    \/ \E api \in SubmitApis, fee \in ParamValues, gas \in ParamValues, storage \in ParamValues,
          source \in {Undef, Str(ContractAddr)} :
          /\ api \in {"originate", "registerDelegate"} => IsUndef(source)
          /\ SubmitCall(api, fee, gas, storage, source)
    \/ \E api \in EstimateApis, source \in {Undef, Str(ContractAddr)} :
          /\ api \in {"estimate.originate", "estimate.registerDelegate"} => IsUndef(source)
          /\ EstimateCall(api, source)
    \/ SetDelegateProto
    \/ PreparePkh
    \/ PrepareContract
    \/ PrepareJoin
    \/ PrepareReveal
    \/ PrepareConstruct
    \/ Forge
    \/ Forged
    \/ EstimateProto
    \/ EstimateChainId
    \/ Simulated
    \/ Signed
    \/ Preapplied(SubmitAnswers)
    \/ Injected
    \/ CallDone

SpecSubmit == InitSubmit /\ [][NextSubmit]_vars

(***************************************************************************)
(* RpcTzProvider.activate, next to the submissions.                        *)
(***************************************************************************)
\* label 0 of activate: prepareAndForge of the activation, with pkh as the
\* source
Activate(pkh) ==
    /\ pc = "idle"
    /\ call' = [NoCall EXCEPT !.api = "activate"]
    /\ inj' = NoInj
    /\ sub' = [NoSub EXCEPT !.phase = "activate"]
    /\ PrepareStart(<<Content("activate_account", Undef, Undef, Undef, Undef, Undef, Undef,
                              Undef)>>, Str(pkh), <<>>)
    /\ UNCHANGED <<otherVars, trackVars, chainVars>>

\* label 2 of activate: rpc.injectOperation has answered with the hash
ActivationInjected ==
    /\ pc = "a_injecting"
    /\ \E rejected \in BOOLEAN :
          IF rejected
          THEN /\ sub' = [sub EXCEPT !.failed = "injectOperation"]
               /\ inj' = inj
               /\ pc' = "s_failed"
          ELSE /\ sub' = sub
               /\ inj' = [inj EXCEPT !.outcome = "returned", !.hash = "op_hash"]
               /\ pc' = "s_done"
    /\ UNCHANGED <<otherVars, trackVars, chainVars, call, loc, log, prepared>>

NextBroadcast ==
    \/ NextSubmit
    \/ \E pkh \in {SignerPkh, OtherPkh} : Activate(pkh)
    \/ ActivationInjected

SpecBroadcast == InitSubmit /\ [][NextBroadcast]_vars

(***************************************************************************)
(* Claims about the submissions and the estimates (SpecSubmit).            *)
(***************************************************************************)
\* the external steps of a submission; getBlockHeader is the first request of
\* every prepareOperation
Steps == {"getBlockHeader", "forge", "runOperation", "sign", "preapplyOperations", "inject"}

IsStep(x) == x \in Steps

IsSubmitStep(x) == x \in Steps \ {"runOperation"}

StepLog == SelectSeq(log, IsStep)

IsPrefix(p, q) == Len(p) <= Len(q) /\ SubSeq(q, 1, Len(p)) = p

SubmitSteps == <<"getBlockHeader", "forge", "sign", "preapplyOperations", "inject">>

EstimateSteps == <<"getBlockHeader", "forge", "runOperation">>

Failed == pc \in {"p_threw", "s_failed"}

\* the step whose failure ended the call
failedAt ==
    IF pc = "p_threw" THEN "getBlockHeader"
    ELSE IF inj.outcome = "threw" THEN inj.at
    ELSE sub.failed

\* the call has returned an operation handle
HandleReturned == call.api \in SubmitApis /\ pc = "s_done"

\* a failed step is the last one made, the injector was not called unless it
\* is the step that failed, and no handle is returned; a handle is returned
\* only after the injector has answered with a hash
StopsAtFailure ==
    /\ Failed =>
          /\ failedAt # "none"
          /\ StepLog # <<>> => StepLog[Len(StepLog)] = failedAt
          /\ failedAt # "inject" => Count(log, "inject") = 0
          /\ ~HandleReturned
          /\ inj.hash = "none"
    /\ HandleReturned =>
          /\ inj.outcome = "returned"
          /\ inj.hash # "none"
          /\ StepLog # <<>>
          /\ StepLog[Len(StepLog)] = "inject"

C7_EstimateNeverBroadcasts ==
    call.api \in EstimateApis =>
        /\ Count(log, "sign") = 0
        /\ Count(log, "preapplyOperations") = 0
        /\ Count(log, "inject") = 0
        /\ Count(log, "runOperation") <= 1
        /\ pc \in {"simulating", "s_done"} => Count(log, "runOperation") = 1
        /\ sub.outcome = "estimate" <=> pc = "s_done"

C7_Witness ==
    /\ call.api = "estimate.setDelegate"
    /\ sub.outcome = "estimate"
    /\ Count(log, "runOperation") = 1
    /\ Count(log, "getChainId") = 1

\* the content of the submitted operation in what prepareOperation returned
submitted == prepared.contents[Len(prepared.contents)]

\* the value a field of the submitted operation is to have
expected(given, estimated) == IF given # Undef THEN given ELSE Num(estimated)

\* C8: each of fee, gasLimit and storageLimit of the submitted operation is
\* the caller's value whenever the caller supplied one, 0 included, and the
\* estimate's suggestedFeeMutez / gasLimit / storageLimit only when the caller
\* left it undefined; without an undefined field no estimate is made
C8_SuppliedLimitsWin ==
    (call.api \in SubmitApis /\ sub.phase = "submit") =>
        /\ sub.estimate.fee = expected(call.fee, suggestedFeeMutez(sub.estimation))
        /\ sub.estimate.gasLimit = expected(call.gasLimit, gasLimit(sub.estimation))
        /\ sub.estimate.storageLimit =
              expected(call.storageLimit, storageLimit(sub.estimation))
        /\ sub.estimation.made <=> needsEstimation(call)
        /\ sub.estimation.made <=> Count(log, "runOperation") = 1
        /\ Returned =>
              /\ submitted.fee = concatString(sub.estimate.fee)
              /\ submitted.gas_limit = concatString(sub.estimate.gasLimit)
              /\ submitted.storage_limit = concatString(sub.estimate.storageLimit)

\* a fee of 0 is submitted as '0' next to an estimated gas limit
C8_Witness ==
    /\ call.api = "transfer"
    /\ sub.phase = "submit"
    /\ Returned
    /\ call.fee = Num(0)
    /\ IsUndef(call.gasLimit)
    /\ sub.estimation.made
    /\ submitted.fee = Str(<<"0">>)
    /\ submitted.gas_limit = Str(ToString(gasLimit(sub.estimation)))

(***************************************************************************)
(* Operation: the confirmation tracker of a handle.  The observables are   *)
(* modelled by their subscriptions: the one subscription of confirmed$ to  *)
(* polling$ that shareReplay keeps, and one subscription to polling$ per   *)
(* call of confirmation once confirmed$ has emitted.                       *)
(***************************************************************************)
\* highest level of the head
MaxLevel == 3

\* most calls of confirmation on the handle
MaxCalls == 1

\* highest number of confirmations asked for
MaxConfirmations == 1

\* context.config of the handle, as set with setProvider
ContextConfig ==
    [confirmationPollingIntervalSecond |-> 2,
     defaultConfirmationCount |-> 0,
     confirmationPollingTimeoutSecond |-> 2]

\* x || d of a number or undefined
orElse(x, d) == IF IsUndef(x) \/ x.v = 0 THEN d ELSE x.v

\* the value confirmation hands to _pollingConfig$.next
pollingConfig(interval, timeout) ==
    [set |-> TRUE,
     interval |-> orElse(interval, ContextConfig.confirmationPollingIntervalSecond),
     timeout |-> orElse(timeout, ContextConfig.confirmationPollingTimeoutSecond)]

\* polling$ on a value of _pollingConfig$: the tap that validates, the map
\* that sets timeoutAt and count, the switchMap that starts the timer anew
configure(poller, config) ==
    IF config.timeout <= 0
    THEN [poller EXCEPT !.state = "errored", !.error = "Timeout must be more than 0",
                        !.head = NoHead]
    ELSE IF config.interval <= 0
    THEN [poller EXCEPT !.state = "errored", !.error = "Interval must be more than 0",
                        !.head = NoHead]
    ELSE [poller EXCEPT !.state = "polling", !.interval = config.interval,
                        !.timeout = config.timeout,
                        !.timeoutAt = CeilDiv(config.timeout, config.interval) + 1,
                        !.count = 0]

\* a subscription to polling$: the ReplaySubject replays its last value
subscribePolling(config) ==
    IF config.set
    THEN configure([NoPoller EXCEPT !.state = "subscribed"], config)
    ELSE [NoPoller EXCEPT !.state = "subscribed"]

\* _pollingConfig$.next(config) as one subscription receives it
nextConfig(poller, config) ==
    IF poller.state \in {"subscribed", "polling"} THEN configure(poller, config) ELSE poller

\* the count left as it is
countFrozen(poller) == poller

\* config.count++
countTick(poller) == [poller EXCEPT !.count = @ + 1]

\* currentHead$: the cached promise, or a new getBlock that the node answers
\* with its head
currentHeadOf(handle) ==
    IF handle._currentHeadPromise.fetched
    THEN handle._currentHeadPromise
    ELSE [fetched |-> TRUE, level |-> node.level, included |-> node.level = node.includedAt]

\* currentHead$ of the handle whose calls are followed
currentHead == currentHeadOf(tracker)

\* one emission of the timer: the tap that counts and times out, then the
\* switchMap to currentHead$
tick(poller) ==
    LET p == countTick(poller)
    IN  IF p.count > p.timeoutAt
        THEN [p EXCEPT !.state = "errored", !.error = "Confirmation polling timed out",
                       !.head = NoHead]
        ELSE [p EXCEPT !.head = currentHead]

NewCall(conf) ==
    [conf |-> conf, state |-> "waiting", poller |-> NoPoller, value |-> 0,
     error |-> "none"]

\* the promise of a call after its subscription to polling$ has changed
settle(c, poller) ==
    IF poller.state = "errored"
    THEN [c EXCEPT !.state = "rejected", !.error = poller.error, !.poller = poller]
    ELSE [c EXCEPT !.poller = poller]

\* confirmed$ has emitted: the switchMap of a waiting call subscribes to polling$
startPolling(c, config) == settle([c EXCEPT !.state = "polling"], subscribePolling(config))

\* confirmed$ has failed: the waiting calls are rejected
rejectWaiting(cs, error) ==
    [i \in 1..Len(cs) |->
        IF cs[i].state = "waiting"
        THEN [cs[i] EXCEPT !.state = "rejected", !.error = error]
        ELSE cs[i]]

\* every variable of the calls that build and submit operations
callVars == <<chainVars, pc, call, loc, log, prepared, pipeVars>>

\* the chain grows by one block, which may hold the operation
AdvanceHead ==
    /\ node.level < MaxLevel
    /\ \E included \in BOOLEAN :
          node' = [level |-> node.level + 1,
                   includedAt |-> IF included /\ node.includedAt = 0
                                  THEN node.level + 1
                                  ELSE node.includedAt]
    /\ UNCHANGED <<tracker, calls, peer, callVars, otherVars>>

\* the level a confirmed call resolves to, taken from the head
resolutionAtHead(foundAt, conf, level) == level

\* resolve(_this._foundAt + conf)
resolution(foundAt, conf, level) == foundAt + conf

\* Operation.confirmation(confirmations, interval, timeout): the polling
\* configuration goes to every subscription of _pollingConfig$, then the call
\* subscribes to confirmed$, which shareReplay subscribes anew after an error
confirmation(confirmations, interval, timeout) ==
    /\ LET config == pollingConfig(interval, timeout)
           conf == IF IsUndef(confirmations)
                   THEN ContextConfig.defaultConfirmationCount
                   ELSE confirmations.v
           shared == nextConfig(tracker.confirmed, config)
           failed == tracker.confirmed.state # "errored" /\ shared.state = "errored"
           earlier == [i \in 1..Len(calls) |->
                          IF calls[i].state = "polling"
                          THEN settle(calls[i], nextConfig(calls[i].poller, config))
                          ELSE IF calls[i].state = "waiting" /\ failed
                          THEN [calls[i] EXCEPT !.state = "rejected", !.error = shared.error]
                          ELSE calls[i]]
           again == IF shared.state = "errored" THEN subscribePolling(config) ELSE shared
           new == IF again.state = "completed"
                  THEN startPolling(NewCall(conf), config)
                  ELSE IF again.state = "errored"
                  THEN [NewCall(conf) EXCEPT !.state = "rejected", !.error = again.error]
                  ELSE NewCall(conf)
       IN  /\ tracker' = [tracker EXCEPT !._pollingConfig = config, !.confirmed = again]
           /\ calls' = Append(earlier, new)
    /\ UNCHANGED <<node, peer, callVars, otherVars>>

\* a call of confirmation on the handle, at most MaxCalls of them
Confirmation(confirmations, interval, timeout) ==
    /\ Len(calls) < MaxCalls
    /\ confirmation(confirmations, interval, timeout)

\* the timer of confirmed$ fires
TickConfirmed ==
    /\ tracker.confirmed.state = "polling"
    /\ LET p == tick(tracker.confirmed)
       IN  IF p.state = "errored"
           THEN /\ tracker' = [tracker EXCEPT !.confirmed = p]
                /\ calls' = rejectWaiting(calls, p.error)
           ELSE /\ tracker' = [tracker EXCEPT !.confirmed = p, !._currentHeadPromise = p.head]
                /\ calls' = calls
    /\ UNCHANGED <<node, peer, callVars, otherVars>>

\* every head taken for one that holds the hash
foundInEveryHead(head, foundAt) == Finite(head.level)

\* the loop of the map of confirmed$ over head.operations[3] down to
\* head.operations[0]: an operation with the tracked hash, in whichever pass,
\* sets _foundAt to the level of the head
foundIn(head, foundAt) == IF head.included THEN Finite(head.level) ELSE foundAt

\* the head reaches the map of confirmed$: its operations are scanned for the
\* hash, and confirmed$ emits _foundAt once the head is at or above it
HeadConfirmed ==
    /\ tracker.confirmed.state = "polling"
    /\ tracker.confirmed.head.fetched
    /\ LET head == tracker.confirmed.head
           foundAt == foundIn(head, tracker._foundAt)
       IN  IF foundAt.finite /\ head.level - foundAt.v >= 0
           THEN /\ tracker' = [tracker EXCEPT !._foundAt = foundAt,
                                              !.confirmed.state = "completed",
                                              !.confirmed.head = NoHead]
                /\ calls' = [i \in 1..Len(calls) |->
                               IF calls[i].state = "waiting"
                               THEN startPolling(calls[i], tracker._pollingConfig)
                               ELSE calls[i]]
           ELSE /\ tracker' = [tracker EXCEPT !._foundAt = foundAt,
                                              !.confirmed.head = NoHead]
                /\ calls' = calls
    /\ UNCHANGED <<node, peer, callVars, otherVars>>

\* the timer of the polling$ of call i fires
TickCall(i) ==
    /\ i \in 1..Len(calls)
    /\ calls[i].poller.state = "polling"
    /\ LET p == tick(calls[i].poller)
       IN  /\ calls' = [calls EXCEPT ![i] = settle(@, p)]
           /\ tracker' = IF p.state = "errored" THEN tracker
                         ELSE [tracker EXCEPT !._currentHeadPromise = p.head]
    /\ UNCHANGED <<node, peer, callVars, otherVars>>

\* the subscription kept after the emission
firstKeepsSubscription(poller) == poller

\* operators.first() of a call: the first head that passes the filter ends the
\* subscription to polling$
first(poller) == [poller EXCEPT !.state = "completed"]

\* the head compared with the number of confirmations alone
depthFromGenesis(head, foundAt, conf) == head.level >= conf

\* head.header.level - _this._foundAt >= conf, false while _foundAt is infinite
reached(head, foundAt, conf) == foundAt.finite /\ head.level - foundAt.v >= conf

\* the head reaches the filter of call i: the call resolves once the head is
\* conf levels above _foundAt
HeadCall(i) ==
    /\ i \in 1..Len(calls)
    /\ calls[i].state = "polling"
    /\ calls[i].poller.head.fetched
    /\ LET head == calls[i].poller.head
           c == [calls[i] EXCEPT !.poller.head = NoHead]
       IN  calls' = [calls EXCEPT ![i] =
                        IF reached(head, tracker._foundAt, c.conf)
                        THEN [c EXCEPT !.state = "resolved", !.poller = first(c.poller),
                                       !.value = resolution(tracker._foundAt.v, c.conf,
                                                            head.level)]
                        ELSE c]
    /\ UNCHANGED <<node, tracker, peer, callVars, otherVars>>

\* one second after the getBlock the cached promise is dropped
CacheExpires ==
    /\ tracker._currentHeadPromise.fetched
    /\ tracker' = [tracker EXCEPT !._currentHeadPromise = NoHead]
    /\ UNCHANGED <<node, calls, peer, callVars, otherVars>>

\* what a caller passes for confirmations, interval and timeout
ConfirmationParams == {Undef} \cup {Num(n) : n \in 0..MaxConfirmations}

IntervalParams == {Undef, Num(1)}

TimeoutParams == {Undef}

InitConfirm ==
    /\ chainCounter = 0
    /\ chainManager = "key"
    /\ nextProtocol = Proto005b
    /\ ctxProto = "none"
    /\ CallInit

NextConfirm ==
    \/ AdvanceHead
    \/ \E confirmations \in ConfirmationParams, interval \in IntervalParams,
          timeout \in TimeoutParams :
          Confirmation(confirmations, interval, timeout)
    \/ TickConfirmed
    \/ HeadConfirmed
    \/ \E i \in 1..MaxCalls : TickCall(i)
    \/ \E i \in 1..MaxCalls : HeadCall(i)
    \/ CacheExpires

SpecConfirm == InitConfirm /\ [][NextConfirm]_vars

\* the timers fire as long as their subscription lives
SpecConfirmFair ==
    /\ SpecConfirm
    /\ WF_vars(TickConfirmed)
    /\ \A i \in 1..MaxCalls : WF_vars(TickCall(i))

(***************************************************************************)
(* Claims about the confirmation tracker (SpecConfirm, SpecConfirmFair).   *)
(***************************************************************************)
TimedOut(c) == c.state = "rejected" /\ c.error = "Confirmation polling timed out"

\* the head handed to the filter of call i is at least conf levels above the
\* level the hash was found at
ObservesDepth(i) ==
    /\ tracker._foundAt.finite
    /\ calls[i].poller.head.level >= tracker._foundAt.v + calls[i].conf

\* C9: the level the hash is found at is the level L of the polled head that
\* holds it; a call confirmation(N) whose poll, within its tick budget,
\* observes a head at level L+N or above resolves on that poll, and every
\* resolved call has resolved to exactly L+N (to L for N = 0)
C9_ResolvesToFoundPlusN ==
    /\ [](tracker._foundAt.finite => tracker._foundAt.v = node.includedAt)
    /\ [](\A i \in 1..Len(calls) :
            calls[i].state = "resolved" =>
                /\ tracker._foundAt.finite
                /\ calls[i].value = node.includedAt + calls[i].conf)
    /\ [][\A i \in 1..MaxCalls :
            (HeadCall(i) /\ ObservesDepth(i)) =>
                /\ calls'[i].state = "resolved"
                /\ calls'[i].value = node.includedAt + calls[i].conf]_vars

\* a call confirmation(N) with N > 0 has resolved to L+N
C9_Witness ==
    \E i \in 1..Len(calls) :
        /\ calls[i].state = "resolved"
        /\ calls[i].conf > 0
        /\ node.includedAt > 0
        /\ calls[i].value = node.includedAt + calls[i].conf

\* C10: a call resolves only when the head has reached L+conf, so that with
\* the hash found at L and the head never above L+N a call confirmation(N+1)
\* never resolves; and such a call does not wait forever: it fails with
\* 'Confirmation polling timed out' unless the head rises to L+N+1
C10_StalledChainTimesOut ==
    /\ [](\A i \in 1..Len(calls) :
            calls[i].state = "resolved" =>
                /\ tracker._foundAt.finite
                /\ node.level >= tracker._foundAt.v + calls[i].conf)
    /\ \A i \in 1..MaxCalls :
          (/\ i <= Len(calls)
           /\ calls[i].state \in {"waiting", "polling"}
           /\ tracker._foundAt.finite)
             ~> (/\ i <= Len(calls)
                 /\ \/ TimedOut(calls[i])
                    \/ node.level >= tracker._foundAt.v + calls[i].conf)

\* found at L, the head still at L, and confirmation(1) has timed out
C10_Witness ==
    \E i \in 1..Len(calls) :
        /\ TimedOut(calls[i])
        /\ tracker._foundAt.finite
        /\ node.level = tracker._foundAt.v
        /\ calls[i].conf = 1
        /\ calls[i].poller.count > calls[i].poller.timeoutAt

\* call i resolves in this step
Resolves(i) ==
    /\ i <= Len(calls')
    /\ calls'[i].state = "resolved"
    /\ i <= Len(calls) => calls[i].state # "resolved"

\* C11: a call of confirmation resolves only in a step that hands it a fetched
\* head while the found level is finite, and for that head
\* level - found level >= conf holds; the found level is the one the hash was
\* seen at and the step leaves it alone
C11_ResolvesOnlyAtDepth ==
    [][\A i \in 1..MaxCalls :
          Resolves(i) =>
              /\ i <= Len(calls)
              /\ calls[i].state = "polling"
              /\ tracker._foundAt.finite
              /\ tracker._foundAt.v = node.includedAt
              /\ calls[i].poller.head.fetched
              /\ calls[i].poller.head.level - tracker._foundAt.v >= calls[i].conf
              /\ calls[i].poller.head.level <= node.level
              /\ tracker'._foundAt = tracker._foundAt]_vars

\* a call confirmation(0) has resolved while a deeper head was never needed
C11_Witness ==
    \E i \in 1..Len(calls) :
        /\ calls[i].state = "resolved"
        /\ calls[i].conf = 0
        /\ tracker._foundAt.finite
        /\ calls[i].value = tracker._foundAt.v

\* the timer emissions a handle with one call has made for that call: those
\* of confirmed$ while the call waited and those of the call's own polling$
ticksOfOnlyCall == tracker.confirmed.count + calls[1].poller.count

\* ceil(timeout / interval) + 1 of the configuration of the only call
timeoutAtOfOnlyCall ==
    CeilDiv(tracker._pollingConfig.timeout, tracker._pollingConfig.interval) + 1

\* C12: a call with positive interval and timeout has
\* timeoutAt = ceil(timeout / interval) + 1; over the search for the hash and
\* the wait for depth together it consumes at most timeoutAt ticks before it
\* resolves or fails, and it fails with the timeout error on tick timeoutAt + 1
C12_OneTickBudgetPerCall ==
    Len(calls) = 1 =>
        /\ tracker.confirmed.state = "polling" =>
              tracker.confirmed.timeoutAt = timeoutAtOfOnlyCall
        /\ calls[1].state = "polling" => calls[1].poller.timeoutAt = timeoutAtOfOnlyCall
        /\ calls[1].state \in {"waiting", "polling"} =>
              ticksOfOnlyCall <= timeoutAtOfOnlyCall
        /\ calls[1].state = "resolved" => ticksOfOnlyCall <= timeoutAtOfOnlyCall
        /\ TimedOut(calls[1]) => ticksOfOnlyCall = timeoutAtOfOnlyCall + 1

(***************************************************************************)
(* Overlapping calls of confirmation, with every kind of interval and      *)
(* timeout a caller can pass, next to a second handle of the same context  *)
(* (SpecOverlap).                                                          *)
(***************************************************************************)
\* most calls of confirmation on the handle when calls overlap
MaxOverlapping == 2

OverlapIntervalParams == {Undef, Num(0), Num(-1), Num(1)}

OverlapTimeoutParams == {Undef, Num(0), Num(-1)}

\* a call of confirmation while earlier calls may be in flight
OverlappingConfirmation(confirmations, interval, timeout) ==
    /\ Len(calls) < MaxOverlapping
    /\ confirmation(confirmations, interval, timeout)

\* a tick of the second handle subscribes to its currentHead$
PeerCurrentHead ==
    /\ peer' = [peer EXCEPT !._currentHeadPromise = currentHeadOf(peer)]
    /\ UNCHANGED <<node, tracker, calls, callVars, otherVars>>

\* one second after its getBlock the second handle drops its cached promise
PeerCacheExpires ==
    /\ peer._currentHeadPromise.fetched
    /\ peer' = [peer EXCEPT !._currentHeadPromise = NoHead]
    /\ UNCHANGED <<node, tracker, calls, callVars, otherVars>>

NextOverlap ==
    \/ AdvanceHead
    \/ \E confirmations \in ConfirmationParams, interval \in OverlapIntervalParams,
          timeout \in OverlapTimeoutParams :
          OverlappingConfirmation(confirmations, interval, timeout)
    \/ TickConfirmed
    \/ HeadConfirmed
    \/ \E i \in 1..MaxOverlapping : TickCall(i)
    \/ \E i \in 1..MaxOverlapping : HeadCall(i)
    \/ CacheExpires
    \/ PeerCurrentHead
    \/ PeerCacheExpires

SpecOverlap == InitConfirm /\ [][NextOverlap]_vars

(***************************************************************************)
(* Claims about overlapping calls, configurations and head fetches         *)
(* (SpecOverlap).                                                          *)
(***************************************************************************)
\* a value a caller passed that is zero or negative
nonPositive(x) == ~IsUndef(x) /\ x.v <= 0

ConfigurationErrors == {"Timeout must be more than 0", "Interval must be more than 0"}

\* C13: a call confirmation(c, interval, timeout) with interval <= 0 or
\* timeout <= 0, zero as well as negative, is rejected in the step that makes
\* the call, with a configuration error, and that step fetches no head
C13_NonPositiveFailsAtOnce ==
    [][\A confirmations \in ConfirmationParams, interval \in OverlapIntervalParams,
          timeout \in OverlapTimeoutParams :
          (/\ nonPositive(interval) \/ nonPositive(timeout)
           /\ confirmation(confirmations, interval, timeout)) =>
              /\ calls'[Len(calls')].state = "rejected"
              /\ calls'[Len(calls')].error \in ConfigurationErrors
              /\ tracker'._currentHeadPromise = tracker._currentHeadPromise]_vars

\* call i has neither resolved nor failed
InFlight(c) == c.state \in {"waiting", "polling"}

\* the subscription to polling$ that ticks for a call in flight: that of
\* confirmed$ while the call waits for the hash, its own afterwards
pollerOf(c, shared) == IF c.state = "waiting" THEN shared ELSE c.poller

\* what a call polls with
budgetOf(p) == <<p.interval, p.timeout, p.timeoutAt, p.count>>

\* C14: a step that makes a later call of confirmation leaves every earlier
\* call that is in flight with its interval, its timeout, its timeoutAt and
\* its tick count, and in flight
C14_LaterCallLeavesEarlierAlone ==
    [][Len(calls') = Len(calls) + 1 =>
          \A i \in 1..Len(calls) :
              InFlight(calls[i]) =>
                  /\ calls'[i].state = calls[i].state
                  /\ budgetOf(pollerOf(calls'[i], tracker'.confirmed)) =
                        budgetOf(pollerOf(calls[i], tracker.confirmed))]_vars

\* C15: the handles of one process share the cached head: while the promise
\* one handle cached is still kept, no other handle issues a getBlock of its
\* own, so the cached promises of two handles are never alive together
C15_OneHeadCacheForAllHandles ==
    ~(tracker._currentHeadPromise.fetched /\ peer._currentHeadPromise.fetched)

\* C16: once a call of confirmation has resolved or has timed out, no step
\* changes anything of it: its subscription to polling$ is over, no timer of it
\* ticks and no head is awaited for it; confirmed$ has completed when a call
\* resolved, and polls for no one when no call is in flight
C16_NoTimerLeftBehind ==
    [][/\ \A i \in 1..Len(calls) :
              (calls[i].state = "resolved" \/ TimedOut(calls[i])) =>
                  /\ calls'[i] = calls[i]
                  /\ calls[i].poller.state \notin {"subscribed", "polling"}
                  /\ ~calls[i].poller.head.fetched
                  /\ calls[i].state = "resolved" => tracker.confirmed.state = "completed"
       /\ (Len(calls) > 0 /\ \A i \in 1..Len(calls) : ~InFlight(calls[i])) =>
              tracker.confirmed.state \in {"completed", "errored"}]_vars

\* a call has resolved and the cached head of its last fetch has been dropped
C16_Witness ==
    \E i \in 1..Len(calls) :
        /\ calls[i].state = "resolved"
        /\ calls[i].poller.state = "completed"
        /\ calls[i].poller.count > 0
        /\ ~tracker._currentHeadPromise.fetched

\* a subscription of the handle awaits the answer to a getBlock: the promise
\* it was given has not resolved
awaitsHead ==
    \/ tracker.confirmed.head.fetched
    \/ \E i \in 1..Len(calls) : calls[i].poller.head.fetched

\* the step calls rpc.getBlock for the handle
getBlockIssued ==
    ~tracker._currentHeadPromise.fetched /\ tracker'._currentHeadPromise.fetched

\* C17: a handle calls rpc.getBlock only when no earlier getBlock of it is
\* still unanswered
C17_OneGetBlockInFlight == [][getBlockIssued => ~awaitsHead]_vars

(***************************************************************************)
(* Claims about constructOps (SpecSubmit, SpecPrepare).                    *)
(***************************************************************************)
\* the address of an originated contract
isContractAddress(a) == Len(a) >= 3 /\ SubSeq(a, 1, 3) = <<"K", "T", "1">>

\* the source a content is submitted for: its own, or the public key hash
\* prepareOperation resolved
resolvedSource(op, publicKeyHash) == IF IsUndef(op.source) THEN publicKeyHash ELSE op.source.v

\* the group holds a transaction whose resolved source is a contract
hasContractSource(ops, publicKeyHash) ==
    \E i \in 1..Len(ops) :
        /\ ops[i].kind = "transaction"
        /\ isContractAddress(resolvedSource(ops[i], publicKeyHash))

\* nothing after prepareOperation has been asked of the forger, the signer or
\* the node
nothingDownstream(lg) ==
    \A x \in {"forge", "runOperation", "sign", "preapplyOperations", "inject"} :
        Count(lg, x) = 0

\* C18: with protocol 005 active, the last step of prepareOperation throws for
\* a group with a transaction whose resolved source is a KT1 address, the call
\* has made and makes no forge, sign, preapply or inject, and ends there; with
\* protocol 005 not active the step returns the prepared group
C18_ContractSourceRefused ==
    [][/\ (pc = "p_proto" /\ pc' # "p_proto") =>
            /\ (/\ isAnyProtocolActive(protocols005)
                /\ hasContractSource(loc.ops, loc.publicKeyHash)) =>
                   /\ pc' = "p_threw"
                   /\ prepared'.status = "threw"
                   /\ nothingDownstream(log')
            /\ ~isAnyProtocolActive(protocols005) =>
                   /\ pc' = "p_returned"
                   /\ prepared'.status = "returned"
                   /\ Len(prepared'.contents) = Len(loc.ops)
       /\ (pc = "p_threw" /\ pc' # "p_threw") =>
            /\ pc' = "idle"
            /\ log' \in {log, <<>>}]_vars

\* a transfer from a KT1 source has been refused under protocol 005
C18_Witness ==
    /\ call.api = "transfer"
    /\ pc = "p_threw"
    /\ isAnyProtocolActive(protocols005)
    /\ hasContractSource(loc.ops, loc.publicKeyHash)
    /\ IsUndef(loc.ops[Len(loc.ops)].source)

\* the three fields protocol 005 has dropped
obsoleteFields(op) == <<op.manager_pubkey, op.spendable, op.delegatable>>

\* C19: in the group prepareOperation returns, with protocol 005 active no
\* content carries manager_pubkey, spendable or delegatable; with protocol 005
\* not active every content carries the three as they were submitted
C19_ObsoleteFieldsStripped ==
    Returned =>
        /\ Len(prepared.contents) = Len(loc.ops)
        /\ \A i \in 1..Len(prepared.contents) :
              obsoleteFields(prepared.contents[i]) =
                  IF isAnyProtocolActive(protocols005)
                  THEN <<Undef, Undef, Undef>>
                  ELSE obsoleteFields(loc.ops[i])

\* an origination submitted with the three fields has been prepared without
\* them under protocol 005
C19_Witness ==
    /\ Returned
    /\ isAnyProtocolActive(protocols005)
    /\ \E i \in 1..Len(loc.ops) :
          /\ loc.ops[i].kind = "origination"
          /\ loc.ops[i].manager_pubkey = Str(SignerPkh)
          /\ loc.ops[i].spendable = Bool(TRUE)
          /\ loc.ops[i].delegatable = Bool(FALSE)
          /\ obsoleteFields(prepared.contents[i]) = <<Undef, Undef, Undef>>

\* the string a submitted fee, gas limit or storage limit is to become
decimalOrZero(x) ==
    IF IsUndef(x) THEN Str(<<"0">>)
    ELSE IF x.t = "number" THEN Str(ToString(x.v))
    ELSE x

\* fee, gas_limit, storage_limit and counter of a content
feeFields(op) == <<op.fee, op.gas_limit, op.storage_limit, op.counter>>

\* C20: in the group prepareOperation returns, a fee-bearing content has fee,
\* gas_limit and storage_limit as strings, '0' for a field submitted undefined
\* and the decimal string of the submitted value otherwise; a source-bearing
\* content has the submitted source when it had one and the resolved public
\* key hash otherwise; a content that is not fee-bearing has fee, gas_limit,
\* storage_limit and counter as submitted, and is given none
C20_ContentsNormalized ==
    Returned =>
        /\ Len(prepared.contents) = Len(loc.ops)
        /\ \A i \in 1..Len(prepared.contents) :
              LET op == loc.ops[i]
                  c == prepared.contents[i]
              IN  /\ c.kind = op.kind
                  /\ op.kind \in {"reveal", "transaction", "origination", "delegation"} =>
                        /\ c.fee = decimalOrZero(op.fee)
                        /\ c.gas_limit = decimalOrZero(op.gas_limit)
                        /\ c.storage_limit = decimalOrZero(op.storage_limit)
                        /\ {c.fee.t, c.gas_limit.t, c.storage_limit.t} = {"string"}
                  /\ op.kind \in {"transaction", "origination", "delegation"} =>
                        c.source = IF IsUndef(op.source) THEN Str(loc.publicKeyHash)
                                   ELSE op.source
                  /\ op.kind \notin {"reveal", "transaction", "origination", "delegation"} =>
                        feeFields(c) = feeFields(op)

\* a group has been prepared that holds a fee-bearing content with a fee of 0
\* and an undefined storage limit, a source of its own, and a content that is
\* not fee-bearing
C20_Witness ==
    /\ Returned
    /\ \E i, j \in 1..Len(loc.ops) :
          /\ loc.ops[i].kind = "transaction"
          /\ loc.ops[i].fee = Num(0)
          /\ IsUndef(loc.ops[i].storage_limit)
          /\ ~IsUndef(loc.ops[i].source)
          /\ prepared.contents[i].fee = Str(<<"0">>)
          /\ prepared.contents[i].gas_limit = Str(<<"1", "2">>)
          /\ loc.ops[j].kind = "activate_account"
          /\ feeFields(prepared.contents[j]) = <<Undef, Undef, Undef, Undef>>

(***************************************************************************)
(* Claims about transfers built with createTransferOperation and about the *)
(* counter prepareOperation returns (SpecPrepare).                         *)
(***************************************************************************)
\* prepareOperation has returned the transfer of 1.5 tz built with
\* createTransferOperation, for an account whose key is revealed
TransferOfOneAndAHalfPrepared ==
    /\ Returned
    /\ call.api = "prepareOperation"
    /\ call.amount = Decimal(15, 1)
    /\ ManagerRevealed(chainManager)

\* C21 as stated: a transfer of 1.5 tz to `to` built without fee, gasLimit and
\* storageLimit is prepared, for a revealed account with counter baseline B, as
\* the single content {kind: 'transaction', amount: '1500000',
\* destination: to, fee: '0', gas_limit: '0', storage_limit: '0',
\* counter: B + 1, source: the signer's public key hash}
C21_TransferPreparedWithZeroFees ==
    TransferOfOneAndAHalfPrepared =>
        /\ Len(prepared.contents) = 1
        /\ LET c == prepared.contents[1]
           IN  /\ c.kind = "transaction"
               /\ c.amount = Str(<<"1", "5", "0", "0", "0", "0", "0">>)
               /\ c.destination = call.to
               /\ c.fee = Str(<<"0">>)
               /\ c.gas_limit = Str(<<"0">>)
               /\ c.storage_limit = Str(<<"0">>)
               /\ c.counter = Str(ToString(chainCounter + 1))
               /\ c.source = Str(SignerPkh)

\* C21: a transfer of 1.5 tz to `to` built without fee, gasLimit and
\* storageLimit is prepared, for a revealed account with counter baseline B, as
\* the single content {kind: 'transaction', amount: '1500000',
\* destination: to, fee: '10000', gas_limit: '10600', storage_limit: '300',
\* counter: B + 1, source: the signer's public key hash}: the limits are the
\* defaults of createTransferOperation
C21_TransferPreparedWithDefaults ==
    TransferOfOneAndAHalfPrepared =>
        /\ Len(prepared.contents) = 1
        /\ LET c == prepared.contents[1]
           IN  /\ c.kind = "transaction"
               /\ c.amount = Str(<<"1", "5", "0", "0", "0", "0", "0">>)
               /\ c.destination = call.to
               /\ c.fee = Str(<<"1", "0", "0", "0", "0">>)
               /\ c.gas_limit = Str(<<"1", "0", "6", "0", "0">>)
               /\ c.storage_limit = Str(<<"3", "0", "0">>)
               /\ c.counter = Str(ToString(chainCounter + 1))
               /\ c.source = Str(SignerPkh)

\* the transfer of 1.5 tz has been prepared above a baseline that is not 0
C21_Witness ==
    /\ TransferOfOneAndAHalfPrepared
    /\ chainCounter > 0
    /\ Len(prepared.contents) = 1
    /\ prepared.contents[1].counter = Str(ToString(chainCounter + 1))

\* the fee-bearing contents of a group
feeBearing(contents) ==
    {i \in 1..Len(contents) :
        contents[i].kind \in {"reveal", "transaction", "origination", "delegation"}}

\* C22: the counter prepareOperation returns next to the group is the baseline
\* the call fetched plus the number of fee-bearing contents of the group
C22_ReturnsFinalCounter ==
    Returned => prepared.counter = loc.counter + Cardinality(feeBearing(prepared.contents))

(***************************************************************************)
(* Estimates on their own: built from raw values, and built by             *)
(* createEstimate from the answer of a dry run (SpecEstimate).             *)
(***************************************************************************)
\* highest raw gas an Estimate is built from
MaxGas == 25

\* highest raw storage, and lowest with the sign changed
MaxStorage == 2

\* highest size in bytes
MaxSize == 3

\* new Estimate(_gasLimit, _storageLimit, opSize)
NewEstimate(g, s, b) ==
    /\ call' = NoCall
    /\ sub' = [NoSub EXCEPT !.estimation =
                  [made |-> TRUE, _gasLimit |-> g, _storageLimit |-> s, opSize |-> b]]
    /\ inj' = NoInj
    /\ UNCHANGED <<otherVars, trackVars, chainVars, pc, loc, log, prepared>>

\* the gas a dry run may report, below, at and above DEFAULT_GAS_LIMIT.DELEGATION
ConsumedGas == {0, 5, 15, 10599, 10600, 10601, 20000}

\* the answer of a dry run that consumed gas and paid for no storage
runAnswer(gas) == <<OperationResult(Str(ToString(gas)), Undef)>>

\* the estimate a method of the estimate provider makes of a forged operation
\* of opbytes characters when the dry run reports the gas
estimateOf(api, opbytes, gas) ==
    LET e == estimator(estimatorOf(api), [NoCall EXCEPT !.api = api, !.amount = OneTez])
    IN  createEstimate(runAnswer(gas), e.defaultStorage, e.minimumGas, opbytes)

\* label 5 of createEstimate for one dry run
EstimateMade(api, opbytes, gas) ==
    /\ call' = [NoCall EXCEPT !.api = api]
    /\ sub' = [NoSub EXCEPT !.opbytes = opbytes, !.estimation = estimateOf(api, opbytes, gas)]
    /\ inj' = NoInj
    /\ UNCHANGED <<otherVars, trackVars, chainVars, pc, loc, log, prepared>>

\* a content of the answer of rpc.runOperation
SimulatedContent(kind, metadata) == [kind |-> kind, metadata |-> metadata]

\* the metadata of such a content
ResultMetadata(operation_result, internal_operation_results) ==
    [operation_result |-> operation_result,
     internal_operation_results |-> internal_operation_results]

\* an internal operation with its result
Internal(result) == [result |-> result]

\* Array.prototype.find on the contents: the first content of the kind, or
\* undefined
RECURSIVE find(_, _)
find(results, kind) ==
    IF Len(results) = 0 THEN Undef
    ELSE IF results[1].kind = kind THEN results[1]
    ELSE find(Tail(results), kind)

\* the primary result alone
getPrimaryResult(opResponse, kind) ==
    LET originationOp == IF IsArray(opResponse.contents)
                         THEN find(opResponse.contents.items, kind) ELSE Undef
    IN  IF has(originationOp) /\ has(originationOp.metadata)
           /\ has(originationOp.metadata.operation_result)
        THEN <<originationOp.metadata.operation_result>>
        ELSE <<>>

\* RPCEstimateProvider.getOperationResult: the operation_result of the first
\* content of the kind and the results of its internal operations, without
\* the ones that are not there
getOperationResult(opResponse, kind) ==
    LET results == opResponse.contents
        originationOp == IF IsArray(results) THEN find(results.items, kind) ELSE Undef
        withMetadata == has(originationOp) /\ has(originationOp.metadata)
        opResult == IF withMetadata THEN originationOp.metadata.operation_result ELSE Undef
        internalResult == IF withMetadata /\ has(originationOp.metadata.internal_operation_results)
                          THEN originationOp.metadata.internal_operation_results.items
                          ELSE <<>>
    IN  SelectSeq(<<opResult>> \o [i \in 1..Len(internalResult) |-> internalResult[i].result],
                  has)

\* the results a dry run reports for one content: gas and storage, gas
\* alone, storage alone
SimulatedResults ==
    { OperationResult(Str(ToString(15)), Str(ToString(2))),
      OperationResult(Str(ToString(10207)), Undef),
      OperationResult(Undef, Str(ToString(41))) }

\* the contents of a dry run: without metadata, without results, with a
\* primary result, with internal results as well
SimulatedContents ==
    {SimulatedContent(kind, Undef) : kind \in {"reveal", "transaction"}}
    \cup {SimulatedContent(kind, ResultMetadata(Undef, Undef)) : kind \in {"delegation"}}
    \cup {SimulatedContent(kind, ResultMetadata(result, Undef)) :
             kind \in FeeKinds, result \in SimulatedResults}
    \cup {SimulatedContent(kind, ResultMetadata(result, Array(<<Internal(inner)>>))) :
             kind \in {"transaction", "origination"},
             result \in SimulatedResults \cup {Undef},
             inner \in SimulatedResults \cup {Undef}}
    \cup {SimulatedContent("transaction",
             ResultMetadata(OperationResult(Str(ToString(15)), Str(ToString(2))),
                            Array(<<Internal(OperationResult(Str(ToString(7)), Undef)),
                                    Internal(OperationResult(Str(ToString(5)),
                                                             Str(ToString(41))))>>)))}

\* the answers of rpc.runOperation: contents that are no array, a list of
\* one content, a content after a reveal or a content of another kind
SimulatedResponses ==
    {[contents |-> Undef]}
    \cup {[contents |-> Array(<<c>>)] : c \in SimulatedContents}
    \cup {[contents |-> Array(<<before, c>>)] :
             before \in {SimulatedContent("reveal",
                           ResultMetadata(OperationResult(Str(ToString(10000)), Undef), Undef)),
                        SimulatedContent("transaction",
                           ResultMetadata(OperationResult(Str(ToString(9)), Str(ToString(1))),
                                          Undef))},
             c \in SimulatedContents}

\* label 5 of createEstimate: the answer of the dry run is taken apart and the
\* estimate is made of its results, the first of the provider;
\* inj.opResponse keeps the contents of the answer, none when they are no array
EstimateSimulated(api, opbytes, opResponse) ==
    /\ ~sub.estimation.made
    /\ call' = [NoCall EXCEPT !.api = api]
    /\ inj' = [NoInj EXCEPT !.answered = TRUE,
                            !.opResponse = IF IsArray(opResponse.contents)
                                           THEN opResponse.contents.items ELSE <<>>]
    /\ LET e == estimator(estimatorOf(api), [NoCall EXCEPT !.api = api, !.amount = OneTez])
       IN  sub' = [NoSub EXCEPT !.opbytes = opbytes,
                                !.estimation =
                                    createEstimate(getOperationResult(opResponse, e.kind),
                                                   e.defaultStorage, e.minimumGas, opbytes)]
    /\ UNCHANGED <<otherVars, trackVars, chainVars, pc, loc, log, prepared>>

NextEstimate ==
    \/ \E g \in 0..MaxGas, s \in (0 - MaxStorage)..MaxStorage, b \in 0..MaxSize :
          NewEstimate(g, s, b)
    \/ \E api \in EstimateApis, opbytes \in ForgedLengths, gas \in ConsumedGas :
          EstimateMade(api, opbytes, gas)
    \/ \E api \in EstimateApis, opbytes \in ForgedLengths, opResponse \in SimulatedResponses :
          EstimateSimulated(api, opbytes, opResponse)

SpecEstimate == InitConfirm /\ [][NextEstimate]_vars

(***************************************************************************)
(* Claims about estimates (SpecEstimate).                                  *)
(***************************************************************************)
\* n = ceil(tenths / 10)
IsCeilOfTenths(n, tenths) == 10 * n >= tenths /\ 10 * (n - 1) < tenths

\* C23: an Estimate built from raw gas g, raw storage s and size b has
\* gasLimit = g + 100, storageLimit = max(s, 0), burnFeeMutez = 1000 * storageLimit,
\* minimalFeeMutez = ceil(100 + gasLimit / 10 + b),
\* suggestedFeeMutez = ceil(gasLimit / 10 + b + 200) = minimalFeeMutez + 100 and
\* totalCost = minimalFeeMutez + burnFeeMutez, none of them negative
C23_EstimateFormulas ==
    sub.estimation.made =>
        LET e == sub.estimation
            g == e._gasLimit
            s == e._storageLimit
            b == e.opSize
        IN  /\ gasLimit(e) = g + 100
            /\ storageLimit(e) = IF s > 0 THEN s ELSE 0
            /\ burnFeeMutez(e) = 1000 * storageLimit(e)
            /\ IsCeilOfTenths(minimalFeeMutez(e), 1000 + (g + 100) + 10 * b)
            /\ IsCeilOfTenths(suggestedFeeMutez(e), (g + 100) + 10 * b + 2000)
            /\ suggestedFeeMutez(e) = minimalFeeMutez(e) + 100
            /\ totalCost(e) = minimalFeeMutez(e) + burnFeeMutez(e)
            /\ \A x \in {gasLimit(e), storageLimit(e), burnFeeMutez(e), minimalFeeMutez(e),
                         suggestedFeeMutez(e), totalCost(e)} : x >= 0

\* an Estimate built from a negative raw storage and a gas that is no multiple
\* of 10
C23_Witness ==
    /\ sub.estimation.made
    /\ sub.estimation._storageLimit < 0
    /\ sub.estimation._gasLimit = 7
    /\ sub.estimation.opSize = 2
    /\ minimalFeeMutez(sub.estimation) = 113
    /\ totalCost(sub.estimation) = 113

\* C24: of two dry runs of the same operation by the same method of which the
\* second reports at least the gas of the first, the second estimate has at
\* least the gasLimit, the operation fee, the minimal fee and the suggested fee
\* of the first, also where the method's minimum gas applies
C24_EstimateMonotone ==
    [][(/\ call.api \in EstimateApis
        /\ call'.api = call.api
        /\ sub'.opbytes = sub.opbytes) =>
          \A g1, g2 \in ConsumedGas :
              (/\ g1 <= g2
               /\ sub.estimation = estimateOf(call.api, sub.opbytes, g1)
               /\ sub'.estimation = estimateOf(call.api, sub.opbytes, g2)) =>
                  /\ gasLimit(sub.estimation) <= gasLimit(sub'.estimation)
                  /\ operationFeeTenths(sub.estimation) <= operationFeeTenths(sub'.estimation)
                  /\ minimalFeeMutez(sub.estimation) <= minimalFeeMutez(sub'.estimation)
                  /\ suggestedFeeMutez(sub.estimation) <= suggestedFeeMutez(sub'.estimation)]_vars

\* a delegation has been estimated from a dry run that reported less than the
\* minimum gas of delegations
C24_Witness ==
    /\ call.api = "estimate.setDelegate"
    /\ sub.estimation.made
    /\ sub.estimation = estimateOf(call.api, sub.opbytes, 5)
    /\ gasLimit(sub.estimation) = 10700

(***************************************************************************)
(* The operation filters of subscribeOperation: opHashFilter, sourceFilter, *)
(* kindFilter, destinationFilter, evaluateOpFilter, evaluateExpression,    *)
(* evaluateFilter and applyFilter.  An object is a record that holds Undef  *)
(* for every key it does not have; an array is tagged as one.              *)
(***************************************************************************)
\* what every, some and if make of a value a filter returns: of true, false
\* and undefined only true is truthy
passes(v) == v = Bool(TRUE)

\* the exception evaluateExpression throws, as the outcome of an evaluation
Throw == [t |-> "throw"]

\* an OpFilter or a filter expression with none of its keys
NoFilter ==
    [t |-> "object", opHash |-> Undef, source |-> Undef, kind |-> Undef,
     destination |-> Undef, and |-> Undef, or |-> Undef]

\* a content of a block operation with none of the keys the filters read
NoContent ==
    [t |-> "object", hash |-> Undef, kind |-> Undef, source |-> Undef,
     destination |-> Undef, delegate |-> Undef, pkh |-> Undef, metadata |-> Undef]

\* the metadata of a content that carries results
NoMetadata == [t |-> "object", delegate |-> Undef, operation_result |-> Undef]

\* an operation_result with the contracts it originated, if it lists any
Originated(contracts) == [t |-> "object", originated_contracts |-> contracts]

opHashFilter(op, filter) == Bool(op.hash = filter.opHash)

sourceFilter(x, filter) ==
    CASE x.kind = Str("endorsement") ->
             Bool(has(x.metadata) /\ x.metadata.delegate = filter.source)
      [] x.kind = Str("activate_account") ->
             Bool(has(x.metadata) /\ x.pkh = filter.source)
      [] OTHER ->
             Bool(has(x.source) /\ x.source = filter.source)

kindFilter(x, filter) == Bool(has(x.kind) /\ x.kind = filter.kind)

\* an origination without a list of originated contracts leaves the switch
\* and the function returns nothing
destinationFilter(x, filter) ==
    CASE x.kind = Str("delegation") ->
             Bool(x.delegate = filter.destination)
      [] x.kind = Str("origination") ->
             IF /\ has(x.metadata)
                /\ has(x.metadata.operation_result)
                /\ has(x.metadata.operation_result.originated_contracts)
                /\ IsArray(x.metadata.operation_result.originated_contracts)
             THEN LET contracts == x.metadata.operation_result.originated_contracts.items
                  IN  Bool(\E i \in DOMAIN contracts : contracts[i] = filter.destination)
             ELSE Undef
      [] x.kind = Str("transaction") ->
             Bool(x.destination = filter.destination)
      [] OTHER ->
             Bool(FALSE)

\* a leaf read as the conjunction of all the keys it carries
evaluateOpFilterEveryKey(op, filter) ==
    Bool(/\ has(filter.opHash) => passes(opHashFilter(op, filter))
         /\ has(filter.source) => passes(sourceFilter(op, filter))
         /\ has(filter.kind) => passes(kindFilter(op, filter))
         /\ has(filter.destination) => passes(destinationFilter(op, filter))
         /\ \/ has(filter.opHash) \/ has(filter.source)
            \/ has(filter.kind) \/ has(filter.destination))

evaluateOpFilter(op, filter) ==
    IF has(filter.opHash) THEN opHashFilter(op, filter)
    ELSE IF has(filter.source) THEN sourceFilter(op, filter)
    ELSE IF has(filter.kind) THEN kindFilter(op, filter)
    ELSE IF has(filter.destination) THEN destinationFilter(op, filter)
    ELSE Bool(FALSE)

\* Array.prototype.every over the values the callback returns, in order: it
\* stops at the first value that is not truthy, or at the first throw
every(results) ==
    IF \E i \in DOMAIN results : ~passes(results[i])
    THEN LET i == CHOOSE k \in DOMAIN results :
                      /\ ~passes(results[k])
                      /\ \A j \in 1..(k - 1) : passes(results[j])
         IN  IF results[i] = Throw THEN Throw ELSE Bool(FALSE)
    ELSE Bool(TRUE)

\* Array.prototype.some: it stops at the first truthy value, or at the first
\* throw
some(results) ==
    IF \E i \in DOMAIN results : passes(results[i]) \/ results[i] = Throw
    THEN LET i == CHOOSE k \in DOMAIN results :
                      /\ passes(results[k]) \/ results[k] = Throw
                      /\ \A j \in 1..(k - 1) : ~passes(results[j]) /\ results[j] # Throw
         IN  IF results[i] = Throw THEN Throw ELSE Bool(TRUE)
    ELSE Bool(FALSE)

RECURSIVE evaluateFilter(_, _)

\* evaluateExpression with some where every belongs
evaluateExpressionSomeOfAnd(op, exp) ==
    IF IsArray(exp.and)
    THEN some([i \in DOMAIN exp.and.items |-> evaluateFilter(op, exp.and.items[i])])
    ELSE IF IsArray(exp.or)
    THEN some([i \in DOMAIN exp.or.items |-> evaluateFilter(op, exp.or.items[i])])
    ELSE Throw

evaluateExpression(op, exp) ==
    IF IsArray(exp.and)
    THEN every([i \in DOMAIN exp.and.items |-> evaluateFilter(op, exp.and.items[i])])
    ELSE IF IsArray(exp.or)
    THEN some([i \in DOMAIN exp.or.items |-> evaluateFilter(op, exp.or.items[i])])
    ELSE Throw

evaluateFilter(op, filter) ==
    LET filters == IF ~IsArray(filter) THEN <<filter>> ELSE filter.items
    IN  every([i \in DOMAIN filters |->
                  IF has(filters[i].and) \/ has(filters[i].or)
                  THEN evaluateExpression(op, filters[i])
                  ELSE evaluateOpFilter(op, filters[i])])

\* { hash: op.hash, ...content }: a hash of the content itself would win
withHash(hash, content) ==
    IF has(content.hash) THEN content ELSE [content EXCEPT !.hash = hash]

(***************************************************************************)
(* The contents and the filters the evaluation is checked on               *)
(* (SpecFilter).                                                           *)
(***************************************************************************)
KT1abc == Str("KT1abc")

KT1xyz == Str("KT1xyz")

tz1a == Str("tz1a")

\* a content of the kind with results
BlockContent(kind) == [NoContent EXCEPT !.kind = Str(kind), !.metadata = NoMetadata]

\* the content as a block lists it when the results are left out
withoutMetadata(content) == [content EXCEPT !.metadata = Undef]

originationOf(result) ==
    [BlockContent("origination") EXCEPT
        !.source = tz1a, !.metadata = [NoMetadata EXCEPT !.operation_result = result]]

ContentsWithResults ==
    {[BlockContent("transaction") EXCEPT !.source = tz1a, !.destination = KT1abc],
     [BlockContent("transaction") EXCEPT !.source = KT1abc, !.destination = KT1xyz],
     [BlockContent("delegation") EXCEPT !.source = tz1a, !.delegate = KT1abc],
     [BlockContent("delegation") EXCEPT !.source = tz1a],
     originationOf(Originated(Array(<<KT1abc>>))),
     originationOf(Originated(Array(<<KT1xyz, KT1abc>>))),
     originationOf(Originated(Array(<<>>))),
     originationOf(Originated(Undef)),
     [BlockContent("endorsement") EXCEPT !.metadata = [NoMetadata EXCEPT !.delegate = tz1a]],
     [BlockContent("endorsement") EXCEPT !.metadata = [NoMetadata EXCEPT !.delegate = KT1abc]],
     [BlockContent("activate_account") EXCEPT !.pkh = tz1a],
     [BlockContent("reveal") EXCEPT !.source = tz1a],
     [BlockContent("ballot") EXCEPT !.source = KT1abc]}

\* OperationEntry.contents is (OperationContents | OperationContentsAndResult)[]
BlockContents == ContentsWithResults \cup {withoutMetadata(c) : c \in ContentsWithResults}

Hashes == {Str("op1"), Str("op2")}

Leaf(key, value) ==
    CASE key = "opHash" -> [NoFilter EXCEPT !.opHash = value]
      [] key = "source" -> [NoFilter EXCEPT !.source = value]
      [] key = "kind" -> [NoFilter EXCEPT !.kind = value]
      [] key = "destination" -> [NoFilter EXCEPT !.destination = value]

And(filters) == [NoFilter EXCEPT !.and = Array(filters)]

Or(filters) == [NoFilter EXCEPT !.or = Array(filters)]

LeafFilters ==
    {Leaf("opHash", Str("op1")),
     Leaf("source", tz1a), Leaf("source", KT1abc),
     Leaf("kind", Str("transaction")), Leaf("kind", Str("delegation")),
     Leaf("destination", KT1abc), Leaf("destination", KT1xyz)}

\* the leaves the expressions are built of
InnerLeaves == {Leaf("kind", Str("transaction")), Leaf("destination", KT1abc), Leaf("source", tz1a)}

ListsOf(S) == {<<>>} \cup {<<a>> : a \in S} \cup {<<a, b>> : a \in S, b \in S}

\* expressions over leaves
FlatExpressions == {And(l) : l \in ListsOf(InnerLeaves)} \cup {Or(l) : l \in ListsOf(InnerLeaves)}

\* expressions over an expression and a leaf
NestedExpressions ==
    {And(<<e, l>>) : e \in FlatExpressions, l \in InnerLeaves}
        \cup {Or(<<e, l>>) : e \in FlatExpressions, l \in InnerLeaves}

\* a filter given as an array of filters
ArrayFilters == {Array(<<a, b>>) : a \in InnerLeaves, b \in InnerLeaves}

Filters == LeafFilters \cup FlatExpressions \cup NestedExpressions \cup ArrayFilters

\* the subscriber of applyFilter for one content of one operation of a block:
\* the content goes on to the subscription when the filter evaluates to a
\* truthy value
applyFilter ==
    /\ watch.phase = "observed"
    /\ LET result == evaluateFilter(watch.op, watch.filter)
       IN  watch' = [watch EXCEPT !.phase = IF passes(result) THEN "next" ELSE "skipped",
                                  !.result = result]
    /\ UNCHANGED <<trackVars, callVars, other, feed, contractVars, contextVars, subscription>>

\* a revealed account with nothing prepared, submitted or confirmed
QuietInit ==
    /\ chainCounter = 0
    /\ chainManager = "key"
    /\ nextProtocol = Proto005b
    /\ ctxProto = "none"
    /\ PipeInit
    /\ TrackInit

InitFilter ==
    /\ QuietInit
    /\ OtherCallInit
    /\ ContractInit
    /\ ContextInit
    /\ SubscriptionInit
    /\ feed = NoFeed
    /\ \E hash \in Hashes, content \in BlockContents, filter \in Filters :
          watch = [phase |-> "observed", op |-> withHash(hash, content),
                   filter |-> filter, result |-> Undef]

NextFilter == applyFilter

SpecFilter == InitFilter /\ [][NextFilter]_vars

(***************************************************************************)
(* Claims about the filters (SpecFilter).                                  *)
(***************************************************************************)
evaluated == watch.phase \in {"next", "skipped"}

RECURSIVE Matches(_, _)

\* conjunction and disjunction as the filter expressions are meant to be read:
\* an and node holds when every sub-filter holds, an or node when at least one
\* does, a leaf when evaluateOpFilter says so
Matches(op, filter) ==
    IF IsArray(filter) THEN \A i \in DOMAIN filter.items : Matches(op, filter.items[i])
    ELSE IF has(filter.and) THEN \A i \in DOMAIN filter.and.items : Matches(op, filter.and.items[i])
    ELSE IF has(filter.or) THEN \E i \in DOMAIN filter.or.items : Matches(op, filter.or.items[i])
    ELSE passes(evaluateOpFilter(op, filter))

\* the filter { and: [{ kind: 'transaction' }, { destination: 'KT1abc' }] }
TransactionsToKT1abc ==
    And(<<Leaf("kind", Str("transaction")), Leaf("destination", KT1abc)>>)

\* C25: evaluateFilter answers true on { and: [...] } exactly when every
\* sub-filter evaluates to true and on { or: [...] } exactly when at least one
\* does, at every depth of nesting; { and: [{ kind: 'transaction' },
\* { destination: 'KT1abc' }] } matches a transaction to KT1abc, no transaction
\* to KT1xyz and no delegation to the delegate KT1abc
C25_AndEveryOrSome ==
    evaluated =>
        /\ watch.result = Bool(Matches(watch.op, watch.filter))
        /\ (~IsArray(watch.filter) /\ has(watch.filter.and)) =>
              (watch.result = Bool(TRUE) <=>
                  \A i \in DOMAIN watch.filter.and.items :
                      evaluateFilter(watch.op, watch.filter.and.items[i]) = Bool(TRUE))
        /\ (~IsArray(watch.filter) /\ ~has(watch.filter.and) /\ has(watch.filter.or)) =>
              (watch.result = Bool(TRUE) <=>
                  \E i \in DOMAIN watch.filter.or.items :
                      evaluateFilter(watch.op, watch.filter.or.items[i]) = Bool(TRUE))
        /\ watch.filter = TransactionsToKT1abc =>
              (watch.phase = "next" <=>
                  watch.op.kind = Str("transaction") /\ watch.op.destination = KT1abc)

\* an or node whose first sub-filter is an and node that fails has been
\* evaluated to true on a delegation to the delegate KT1abc
C25_Witness ==
    /\ watch.phase = "next"
    /\ watch.op.kind = Str("delegation")
    /\ watch.op.delegate = KT1abc
    /\ watch.filter = Or(<<TransactionsToKT1abc, Leaf("source", tz1a)>>)
    /\ ~passes(evaluateFilter(watch.op, TransactionsToKT1abc))

\* the filter is a leaf with the key and no other
leafOf(filter, key) ==
    /\ ~IsArray(filter)
    /\ filter = Leaf(key, CASE key = "source" -> filter.source
                            [] key = "destination" -> filter.destination)

\* the contracts the results of an origination list, none when there are no
\* results or no list
originatedContracts(x) ==
    IF /\ has(x.metadata)
       /\ has(x.metadata.operation_result)
       /\ has(x.metadata.operation_result.originated_contracts)
    THEN {x.metadata.operation_result.originated_contracts.items[i] :
              i \in DOMAIN x.metadata.operation_result.originated_contracts.items}
    ELSE {}

\* C26: a source filter matches an endorsement by metadata.delegate, an
\* activate_account by pkh and every other kind by source; a destination
\* filter matches a delegation by delegate, an origination by membership in
\* metadata.operation_result.originated_contracts, a transaction by
\* destination and never any other kind
C26_LeafFiltersPerKind ==
    evaluated =>
        LET x == watch.op
            filter == watch.filter
        IN  /\ leafOf(filter, "source") =>
                  (watch.phase = "next" <=>
                      CASE x.kind = Str("endorsement") ->
                               has(x.metadata) /\ x.metadata.delegate = filter.source
                        [] x.kind = Str("activate_account") -> x.pkh = filter.source
                        [] OTHER -> x.source = filter.source)
            /\ leafOf(filter, "destination") =>
                  (watch.phase = "next" <=>
                      CASE x.kind = Str("delegation") -> x.delegate = filter.destination
                        [] x.kind = Str("origination") ->
                               filter.destination \in originatedContracts(x)
                        [] x.kind = Str("transaction") -> x.destination = filter.destination
                        [] OTHER -> FALSE)

(***************************************************************************)
(* The Contract abstraction: validateArgs, the methods the constructor     *)
(* builds (_initializeMethods, _initializeMethodsLegacy) and send.  What   *)
(* ExtractSignatures and ExtractSchema answer is given with the schema: a  *)
(* set of signatures, each a sequence of names, and the keys of the schema.*)
(***************************************************************************)
MaxArgs == 2

MaxTransfers == 1

DEFAULT_SMART_CONTRACT_METHOD_NAME == "main"

\* a ParameterSchema by what the contract abstraction asks of it
ParameterSchema(isMultipleEntryPoint, keys, signatures) ==
    [isMultipleEntryPoint |-> isMultipleEntryPoint, keys |-> keys, signatures |-> signatures]

ExtractSignatures(schema) == schema.signatures

\* Object.keys(parameterSchema.ExtractSchema())
ExtractSchemaKeys(schema) == schema.keys

\* validateArgs that lets every number of arguments through
validateArgsOfAnyLength(args, schema, name) == TRUE

\* validateArgs returns (TRUE) or throws InvalidParameterError (FALSE)
validateArgs(args, schema, name) ==
    LET sigs == ExtractSignatures(schema)
    IN  \E x \in sigs : Len(x) = Len(args)

\* the method the constructor stores under the name: the schema and the
\* arguments it validates and the class of the object it returns; "none" when
\* it stores no method under the name
methodOf(c, name) ==
    IF c.entrypoints # Undef
    THEN \* _initializeMethods
         IF c.parameterSchema.isMultipleEntryPoint
         THEN IF name \in ExtractSchemaKeys(c.parameterSchema) \ DOMAIN c.entrypoints.entrypoints
              THEN [made |-> "anonymous", schema |-> c.parameterSchema, named |-> TRUE,
                    class |-> "ContractMethod"]
              ELSE IF name \in DOMAIN c.entrypoints.entrypoints
              THEN [made |-> "entrypoint", schema |-> c.entrypoints.entrypoints[name],
                    named |-> FALSE, class |-> "ContractMethod"]
              ELSE [made |-> "none"]
         ELSE IF name = DEFAULT_SMART_CONTRACT_METHOD_NAME
              THEN [made |-> "single", schema |-> c.parameterSchema, named |-> FALSE,
                    class |-> "ContractMethod"]
              ELSE [made |-> "none"]
    ELSE \* _initializeMethodsLegacy
         IF c.parameterSchema.isMultipleEntryPoint
         THEN IF name \in ExtractSchemaKeys(c.parameterSchema)
              THEN [made |-> "legacy", schema |-> c.parameterSchema, named |-> TRUE,
                    class |-> "LegacyContractMethod"]
              ELSE [made |-> "none"]
         ELSE IF name = DEFAULT_SMART_CONTRACT_METHOD_NAME
              THEN [made |-> "legacy single", schema |-> c.parameterSchema, named |-> FALSE,
                    class |-> "LegacyContractMethod"]
              ELSE [made |-> "none"]

\* [smartContractMethodName, ...args] where the method passes the name along
validatedArgs(method, name, args) == IF method.named THEN <<name>> \o args ELSE args

\* contract.methods[name](...args): InvalidParameterError, or a ContractMethod
\* or LegacyContractMethod that holds the arguments
CallMethod(name, args) ==
    /\ contract.loaded
    /\ invocation.state = "none"
    /\ methodOf(contract, name).made # "none"
    /\ LET method == methodOf(contract, name)
       IN  invocation' =
               IF validateArgs(validatedArgs(method, name, args), method.schema, name)
               THEN [invocation EXCEPT !.state = "method", !.name = name, !.args = args,
                                       !.class = method.class]
               ELSE [invocation EXCEPT !.state = "InvalidParameterError", !.name = name,
                                       !.args = args]
    /\ UNCHANGED <<trackVars, callVars, other, watchVars, contract, contextVars, subscription>>

\* ContractMethod.send / LegacyContractMethod.send: provider.transfer is called
Send ==
    /\ invocation.state = "method"
    /\ invocation.transfers < MaxTransfers
    /\ invocation' = [invocation EXCEPT !.transfers = @ + 1]
    /\ UNCHANGED <<trackVars, callVars, other, watchVars, contract, contextVars, subscription>>

\* the arguments of a call, by their number
ArgumentLists == {[i \in 1..n |-> "arg"] : n \in 0..MaxArgs}

\* the signatures an entrypoint of its own may have
EntrypointSignatures ==
    {{<<"nat">>}, {<<"nat">>, <<"nat", "string">>}, {<<"nat", "string">>}, {<<>>, <<"nat">>}, {}}

\* the contracts loaded: with and without the entrypoints of the node, with
\* and without several entry points; the schema of foo taken from the
\* entrypoints answers the signatures given, the parameter schema lists every
\* entry point with its name first
Contracts ==
    {[loaded |-> TRUE,
      entrypoints |-> [t |-> "object",
                       entrypoints |-> [n \in {"foo", "bar"} |->
                           ParameterSchema(FALSE, {},
                                           IF n = "foo" THEN sigs ELSE {<<"nat", "string">>})]],
      parameterSchema |-> ParameterSchema(TRUE, {"foo", "bar", "0"},
                              {<<"foo", "nat">>, <<"bar", "nat", "string">>, <<"0", "unit">>})]
        : sigs \in EntrypointSignatures}
    \cup {[loaded |-> TRUE,
           entrypoints |-> [t |-> "object",
                            entrypoints |-> [n \in {"default"} |->
                                                ParameterSchema(FALSE, {}, sigs)]],
           parameterSchema |-> ParameterSchema(FALSE, {}, sigs)]
            : sigs \in EntrypointSignatures}
    \cup {[loaded |-> TRUE,
           entrypoints |-> Undef,
           parameterSchema |-> ParameterSchema(TRUE, {"foo", "bar"},
                                   {<<"foo">> \o x : x \in sigs} \cup {<<"bar", "nat", "string">>})]
            : sigs \in EntrypointSignatures}
    \cup {[loaded |-> TRUE,
           entrypoints |-> Undef,
           parameterSchema |-> ParameterSchema(FALSE, {}, sigs)]
            : sigs \in EntrypointSignatures}

MethodNames == {"foo", "bar", "0", DEFAULT_SMART_CONTRACT_METHOD_NAME}

InitContract ==
    /\ QuietInit
    /\ OtherCallInit
    /\ WatchInit
    /\ ContextInit
    /\ SubscriptionInit
    /\ contract \in Contracts
    /\ invocation = NoInvocation

NextContract ==
    \/ \E name \in MethodNames, args \in ArgumentLists : CallMethod(name, args)
    \/ Send

SpecContract == InitContract /\ [][NextContract]_vars

(***************************************************************************)
(* Claims about the Contract abstraction (SpecContract).                   *)
(***************************************************************************)
\* the number of arguments the call is checked with: the arguments as given
\* for a method of a discovered entrypoint and for main, the name and the
\* arguments for an anonymous method and for a method of a legacy contract
\* with several entry points
argumentsChecked(c, name, args) ==
    IF c.parameterSchema.isMultipleEntryPoint
          /\ (c.entrypoints = Undef \/ name \notin DOMAIN c.entrypoints.entrypoints)
    THEN Len(args) + 1
    ELSE Len(args)

\* the signatures the call is checked against: those of the entrypoint the
\* node lists, else those of the parameter schema
signaturesChecked(c, name) ==
    IF /\ c.parameterSchema.isMultipleEntryPoint
       /\ c.entrypoints # Undef
       /\ name \in DOMAIN c.entrypoints.entrypoints
    THEN c.entrypoints.entrypoints[name].signatures
    ELSE c.parameterSchema.signatures

\* C27: contract.methods[name](...args) fails with InvalidParameterError
\* exactly when no signature extracted from the schema the method validates
\* against has as many elements as the arguments checked (the arguments as
\* given, or the method name and the arguments); then no method object is
\* produced and provider.transfer is never called
C27_InvalidParameterIffNoSignature ==
    invocation.state # "none" =>
        /\ invocation.state = "InvalidParameterError" <=>
              ~\E x \in signaturesChecked(contract, invocation.name) :
                  Len(x) = argumentsChecked(contract, invocation.name, invocation.args)
        /\ invocation.state = "InvalidParameterError" =>
              invocation.class = "none" /\ invocation.transfers = 0

\* an anonymous method has been refused a call without arguments that the
\* method of a discovered entrypoint of the same contract would have taken
C27_Witness ==
    /\ invocation.state = "InvalidParameterError"
    /\ invocation.name = "0"
    /\ Len(invocation.args) = 0
    /\ contract.entrypoints # Undef
    /\ \E x \in contract.entrypoints.entrypoints["foo"].signatures : Len(x) = 0

(***************************************************************************)
(* Context: its setters and clone, the context an injected operation is    *)
(* given and what Operation.confirmation reads of it.  Objects are held by *)
(* reference: a Context is named by its place in contexts.                 *)
(***************************************************************************)
RpcClients == {"rpc", "rpc2"}

Signers == {"NoopSigner", "signer", "signer2"}

ProtocolHints == {"none", Proto004, Proto005a}

\* the values given to the setter of config: nothing, or some of the keys
ConfigValues ==
    {Undef,
     [NoConfigKeys EXCEPT !.confirmationPollingIntervalSecond = Num(5)],
     [NoConfigKeys EXCEPT !.defaultConfirmationCount = Num(1),
                          !.confirmationPollingTimeoutSecond = Num(60)]}

\* a configuration object as the value handed to the setter
asValue(config) == [k \in DOMAIN config |-> Num(config[k])]

\* clone that hands back the context itself
cloneAsThis(cs, this) == [contexts |-> cs, ref |-> this]

\* Context.clone: a new Context of the rpc, the signer, the protocol hint, the
\* configuration, the forger and the injector of this one
clone(cs, this) ==
    LET self == Len(cs) + 1
    IN  [contexts |-> Append(cs, Context(self, cs[this]._rpcClient, cs[this]._signer,
                                         cs[this]._proto, asValue(cs[this]._config),
                                         cs[this]._forger, cs[this]._injector)),
         ref |-> self]

\* set rpc(value) of the toolkit's context
SetRpc(value) ==
    /\ contexts' = [contexts EXCEPT ![1]._rpcClient = value]
    /\ UNCHANGED <<trackVars, callVars, other, watchVars, contractVars, injectedOp, subscription>>

\* set signer(value)
SetSigner(value) ==
    /\ contexts' = [contexts EXCEPT ![1]._signer = value]
    /\ UNCHANGED <<trackVars, callVars, other, watchVars, contractVars, injectedOp, subscription>>

\* set proto(value)
SetProto(value) ==
    /\ contexts' = [contexts EXCEPT ![1]._proto = value]
    /\ UNCHANGED <<trackVars, callVars, other, watchVars, contractVars, injectedOp, subscription>>

\* set config(value)
SetConfig(value) ==
    /\ contexts' = [contexts EXCEPT ![1]._config = configOf(value)]
    /\ UNCHANGED <<trackVars, callVars, other, watchVars, contractVars, injectedOp, subscription>>

\* the end of inject: the operation is given this.context.clone(); taken keeps
\* what the toolkit's context was at that moment
InjectedWithClone ==
    /\ ~injectedOp.injected
    /\ LET cloned == clone(contexts, 1)
       IN  /\ contexts' = cloned.contexts
           /\ injectedOp' = [injectedOp EXCEPT !.injected = TRUE, !.context = cloned.ref,
                                               !.taken = contexts[1]]
    /\ UNCHANGED <<trackVars, callVars, other, watchVars, contractVars, subscription>>

\* Operation.confirmation() without arguments: the defaults come from
\* this.context.config and currentHead$ asks this.context.rpc for the head
ConfirmationOfInjected ==
    /\ injectedOp.injected
    /\ LET context == contexts[injectedOp.context]
       IN  injectedOp' =
               [injectedOp EXCEPT !.confirmation =
                   [called |-> TRUE,
                    rpc |-> context._rpcClient,
                    interval |-> context._config.confirmationPollingIntervalSecond,
                    timeout |-> context._config.confirmationPollingTimeoutSecond,
                    conf |-> context._config.defaultConfirmationCount]]
    /\ UNCHANGED <<trackVars, callVars, other, watchVars, contractVars, contexts, subscription>>

InitContext ==
    /\ QuietInit
    /\ OtherCallInit
    /\ WatchInit
    /\ ContractInit
    /\ ContextInit
    /\ SubscriptionInit

NextContext ==
    \/ \E value \in RpcClients : SetRpc(value)
    \/ \E value \in Signers : SetSigner(value)
    \/ \E value \in ProtocolHints : SetProto(value)
    \/ \E value \in ConfigValues : SetConfig(value)
    \/ InjectedWithClone
    \/ ConfirmationOfInjected

SpecContext == InitContext /\ [][NextContext]_vars

(***************************************************************************)
(* Claims about the context of a handle (SpecContext).                     *)
(***************************************************************************)
\* C28: the operation handle keeps the context as it was at the injection:
\* whatever rpc, signer, protocol hint or configuration the original Context
\* is given afterwards, confirmation fetches heads through the rpc of the
\* injection and takes its default interval, timeout and number of
\* confirmations from the configuration of the injection
C28_HandleKeepsContextOfInjection ==
    injectedOp.injected =>
        LET context == contexts[injectedOp.context]
            taken == injectedOp.taken
        IN  /\ context._rpcClient = taken._rpcClient
            /\ context._signer = taken._signer
            /\ context._proto = taken._proto
            /\ context._config = taken._config
            /\ injectedOp.confirmation.called =>
                  /\ injectedOp.confirmation.rpc = taken._rpcClient
                  /\ injectedOp.confirmation.interval =
                         taken._config.confirmationPollingIntervalSecond
                  /\ injectedOp.confirmation.timeout =
                         taken._config.confirmationPollingTimeoutSecond
                  /\ injectedOp.confirmation.conf = taken._config.defaultConfirmationCount

\* confirmation has been called on a handle whose original Context has since
\* been given another rpc, signer, protocol hint and configuration
C28_Witness ==
    /\ injectedOp.injected
    /\ injectedOp.confirmation.called
    /\ contexts[1]._rpcClient # injectedOp.taken._rpcClient
    /\ contexts[1]._signer # injectedOp.taken._signer
    /\ contexts[1]._proto # injectedOp.taken._proto
    /\ contexts[1]._config.confirmationPollingIntervalSecond
           # injectedOp.confirmation.interval
    /\ contexts[1]._config.confirmationPollingTimeoutSecond
           # injectedOp.confirmation.timeout
    /\ injectedOp.confirmation.rpc = "rpc"

(***************************************************************************)
(* ObservableSubscription: on, off, close and the subscriber of            *)
(* obs.pipe(takeUntil(completed$)).  The source is a stream of blocks that *)
(* emits, or fails when the node does; callbacks are named and do not call *)
(* back into the subscription.  Next to the fields of the object the       *)
(* record keeps what has happened to it:                                   *)
(*   closes             the calls of close() so far                        *)
(*   lastEvent          the event of the last dispatch                     *)
(*   closeCalls         how often the close listeners were run             *)
(*   registered         per event and callback, the calls of on not yet    *)
(*                      taken back by a call of off                        *)
(*   lastOff, sinceOff  the last off(type, cb) with no on(type, cb) since, *)
(*                      and whether the event was dispatched since         *)
(*   afterClose         a data or error event was dispatched after close() *)
(*   afterOff           a callback was called for the event it was last    *)
(*                      taken off                                          *)
(*   inexact            a dispatch did not call every callback once per    *)
(*                      registration                                       *)
(*   failedBeforeClose  the source had failed when close() was first called*)
(***************************************************************************)
\* most registrations held at a time, over the three lists
MaxListeners == 2

\* most calls of close()
MaxCloses == 2

EventTypes == {"data", "error", "close"}

Callbacks == {"cb1", "cb2"}

\* the list of the event type
listenersOf(s, type) ==
    CASE type = "data" -> s.messageListeners
      [] type = "error" -> s.errorListeners
      [] type = "close" -> s.closeListeners

withListeners(s, type, listeners) ==
    CASE type = "data" -> [s EXCEPT !.messageListeners = listeners]
      [] type = "error" -> [s EXCEPT !.errorListeners = listeners]
      [] type = "close" -> [s EXCEPT !.closeListeners = listeners]

\* how often the callback is in the list
occurrences(listeners, cb) == Cardinality({i \in DOMAIN listeners : listeners[i] = cb})

\* remove that leaves the list as it is
removeNothing(listeners, value) == listeners

\* remove: indexOf and splice(idx, 1), the first occurrence goes
remove(listeners, value) ==
    IF \E i \in DOMAIN listeners : listeners[i] = value
    THEN LET idx == CHOOSE i \in DOMAIN listeners :
                        /\ listeners[i] = value
                        /\ \A j \in 1..(i - 1) : listeners[j] # value
         IN  SubSeq(listeners, 1, idx - 1) \o SubSeq(listeners, idx + 1, Len(listeners))
    ELSE listeners

\* call(listeners, value): every listener of the list is called, in order; what
\* a listener throws is logged and the loop goes on
dispatched(s, type) ==
    LET called == listenersOf(s, type)
    IN  [s EXCEPT !.lastEvent = type,
                  !.closeCalls = IF type = "close" THEN @ + 1 ELSE @,
                  !.sinceOff = @ \/ (s.lastOff # <<>> /\ s.lastOff[1] = type),
                  !.afterClose = @ \/ (type # "close" /\ s.closes > 0),
                  !.afterOff = @ \/ (/\ s.lastOff # <<>>
                                     /\ s.lastOff[1] = type
                                     /\ \E i \in DOMAIN called : called[i] = s.lastOff[2]),
                  !.inexact = @ \/ \E cb \in Callbacks :
                                       occurrences(called, cb) # s.registered[type][cb]]

\* the subscriber left by takeUntil when completed$ emits: it completes and
\* its complete handler calls the close listeners, unless it is done already
takeUntil(s) ==
    IF s.state = "open" THEN [dispatched(s, "close") EXCEPT !.state = "completed"] ELSE s

\* new ObservableSubscription(obs): the source is subscribed
Subscribe ==
    /\ subscription.state = "none"
    /\ subscription' = [subscription EXCEPT !.state = "open"]
    /\ UNCHANGED <<trackVars, callVars, other, watchVars, contractVars, contextVars>>

\* on(type, cb): push, or an Error for an event type there is none of, which
\* leaves the object as it is
On(type, cb) ==
    /\ subscription.state # "none"
    /\ IF type \in EventTypes
       THEN /\ Len(subscription.messageListeners) + Len(subscription.errorListeners)
                   + Len(subscription.closeListeners) < MaxListeners
            /\ subscription' =
                   [withListeners(subscription, type, Append(listenersOf(subscription, type), cb))
                       EXCEPT !.registered[type][cb] = @ + 1,
                              !.lastOff = IF @ = <<type, cb>> THEN <<>> ELSE @,
                              !.sinceOff = IF subscription.lastOff = <<type, cb>>
                                           THEN FALSE ELSE @]
       ELSE subscription' = subscription
    /\ UNCHANGED <<trackVars, callVars, other, watchVars, contractVars, contextVars>>

\* off(type, cb): remove, or an Error for an event type there is none of
Off(type, cb) ==
    /\ subscription.state # "none"
    /\ IF type \in EventTypes
       THEN subscription' =
                [withListeners(subscription, type, remove(listenersOf(subscription, type), cb))
                    EXCEPT !.registered[type][cb] = IF @ > 0 THEN @ - 1 ELSE @,
                           !.lastOff = <<type, cb>>,
                           !.sinceOff = FALSE]
       ELSE subscription' = subscription
    /\ UNCHANGED <<trackVars, callVars, other, watchVars, contractVars, contextVars>>

\* close(): completed$.next()
Close ==
    /\ subscription.state # "none"
    /\ subscription.closes < MaxCloses
    /\ subscription' =
           takeUntil([subscription EXCEPT
                         !.closes = @ + 1,
                         !.failedBeforeClose = @ \/ (subscription.closes = 0
                                                        /\ subscription.state = "errored")])
    /\ UNCHANGED <<trackVars, callVars, other, watchVars, contractVars, contextVars>>

\* the source emits: the next handler calls the data listeners
SourceNext ==
    /\ subscription.state = "open"
    /\ subscription' = dispatched(subscription, "data")
    /\ UNCHANGED <<trackVars, callVars, other, watchVars, contractVars, contextVars>>

\* the source fails: the error handler calls the error listeners, and the
\* subscriber is done
SourceError ==
    /\ subscription.state = "open"
    /\ subscription' = [dispatched(subscription, "error") EXCEPT !.state = "errored"]
    /\ UNCHANGED <<trackVars, callVars, other, watchVars, contractVars, contextVars>>

InitSubscription ==
    /\ QuietInit
    /\ OtherCallInit
    /\ WatchInit
    /\ ContractInit
    /\ ContextInit
    /\ SubscriptionInit

NextSubscription ==
    \/ Subscribe
    \/ \E type \in EventTypes \cup {"message"}, cb \in Callbacks : On(type, cb)
    \/ \E type \in EventTypes \cup {"message"}, cb \in Callbacks : Off(type, cb)
    \/ Close
    \/ SourceNext
    \/ SourceError

SpecSubscription == InitSubscription /\ [][NextSubscription]_vars

numberedFrom(contents, baseline) ==
    \A i \in 1..Len(feeContents(contents)) :
        feeContents(contents)[i].counter = Str(ToString(baseline + i))

\* C30: two calls of prepareOperation for the same source, one after the
\* other or interleaved, share no counter state: each numbers its fee-bearing
\* contents from the baseline it fetched itself, and two calls that fetched
\* the same baseline B both give B + 1 to their first fee-bearing content
C30_CallsShareNoCounters ==
    /\ Returned => numberedFrom(prepared.contents, baselineOf(loc.headCounter))
    /\ other.pc = "returned" => numberedFrom(other.contents, baselineOf(other.headCounter))
    /\ (Returned /\ other.pc = "returned" /\ loc.headCounter = other.headCounter) =>
          /\ feeContents(prepared.contents)[1].counter = Str(ToString(loc.counter + 1))
          /\ feeContents(other.contents)[1].counter = Str(ToString(loc.counter + 1))

\* both calls have returned a transfer numbered 2 for an account whose
\* counter both found at 1
C30_Witness ==
    /\ Returned
    /\ other.pc = "returned"
    /\ loc.headCounter = Str(<<"1">>)
    /\ other.headCounter = Str(<<"1">>)
    /\ loc.publicKeyHash = SignerPkh
    /\ prepared.contents[1].kind = "transaction"
    /\ prepared.contents[1].counter = Str(<<"2">>)
    /\ other.contents[1].counter = Str(<<"2">>)

(***************************************************************************)
(* Claims about the round trips of one prepareOperation call               *)
(* (SpecPrepare).                                                          *)
(***************************************************************************)
\* the call has left the loop of labels 3..5 and what it starts
pastTheLoop == pc \in {"p_join", "p_reveal", "p_proto", "p_returned", "p_threw"}

\* C31: within one prepareOperation call getContract and getManagerKey are
\* each called exactly once when the group holds at least one transaction,
\* origination or delegation, however many it holds, and not at all when it
\* holds none
C31_BaselineFetchedOncePerCall ==
    /\ Count(log, "getContract") <= 1
    /\ Count(log, "getManagerKey") <= 1
    /\ pastTheLoop =>
          LET fetches == IF hasSourceOp(loc.operation) THEN 1 ELSE 0
          IN  /\ Count(log, "getContract") = fetches
              /\ Count(log, "getManagerKey") = fetches

\* a call with two source-bearing contents has returned after one fetch of each
C31_Witness ==
    /\ Returned
    /\ Len(loc.operation) = 2
    /\ isSourceOp(loc.operation[1])
    /\ isSourceOp(loc.operation[2])
    /\ Count(log, "getContract") = 1
    /\ Count(log, "getManagerKey") = 1

\* the four round trips of prepareOperation
RoundTrips == {"getBlockHeader", "getBlockMetadata", "getContract", "getManagerKey"}

\* the call is suspended on the answer of one of the four round trips
awaitsRoundTrip == pc \in {"p_contract", "p_join"}

\* C32: the four round trips (head header, head metadata, source counter,
\* manager key) are all issued before the answer of any of them is waited
\* for: whenever a call for a source-bearing group is suspended on one of
\* them, all four have been issued
C32_AllIssuedBeforeAnyAwaited ==
    (awaitsRoundTrip /\ hasSourceOp(loc.operation)) =>
        \A request \in RoundTrips : Count(log, request) >= 1

(***************************************************************************)
(* Claims about the handle before and after the hash is found              *)
(* (SpecConfirm).                                                          *)
(***************************************************************************)
\* C33: creating an operation handle starts no polling: before the first
\* call of confirmation the timer of confirmed$ has not fired, no getBlock
\* has been issued for the handle and no head is on its way to the map
C33_NoPollingBeforeConfirmation ==
    Len(calls) = 0 =>
        /\ tracker.confirmed.state = "subscribed"
        /\ tracker.confirmed.count = 0
        /\ ~tracker.confirmed.head.fetched
        /\ ~tracker._currentHeadPromise.fetched
        /\ ~tracker._pollingConfig.set

\* the chain has grown since the handle was made, the operation is in a
\* block, and the handle, never asked for a confirmation, has fetched nothing
C33_Witness ==
    /\ Len(calls) = 0
    /\ node.level >= 2
    /\ node.includedAt > 0
    /\ ~tracker._currentHeadPromise.fetched

\* the step sets the found level
SetsFoundAt == tracker'._foundAt # tracker._foundAt

\* C34: the found level starts infinite, is set at most once, by the map of
\* confirmed$ to the level of the first head handed to it whose operations
\* hold the tracked hash, and never changes afterwards; once it is set
\* confirmed$ has completed, so that later heads reach only the filters of
\* the calls, which compare levels, and no operation list is scanned again
C34_FoundLevelSetOnce ==
    /\ [](Len(calls) = 0 => ~tracker._foundAt.finite)
    /\ [](tracker._foundAt.finite => tracker.confirmed.state = "completed")
    /\ [][tracker._foundAt.finite => tracker'._foundAt = tracker._foundAt]_vars
    /\ [][tracker.confirmed.state = "completed" => tracker'.confirmed = tracker.confirmed]_vars
    /\ [][SetsFoundAt =>
            /\ HeadConfirmed
            /\ tracker.confirmed.head.included
            /\ tracker'._foundAt = Finite(tracker.confirmed.head.level)]_vars
    /\ [][(HeadConfirmed /\ tracker.confirmed.head.included) => SetsFoundAt]_vars

\* the hash was found at level 2 and a call has since resolved on a head two
\* levels above, with the found level still 2
C34_Witness ==
    /\ tracker._foundAt = Finite(2)
    /\ node.level = 3
    /\ \E i \in 1..Len(calls) :
          /\ calls[i].state = "resolved"
          /\ calls[i].conf = 1
          /\ calls[i].value = 3

(***************************************************************************)
(* Claims about the estimate made of a dry run (SpecEstimate).             *)
(***************************************************************************)
\* the kind a method of the estimate provider estimates
estimatedKind(api) ==
    CASE api = "estimate.transfer" -> "transaction"
      [] api = "estimate.originate" -> "origination"
      [] OTHER -> "delegation"

\* the first content of the kind in the answer kept, if there is one
estimatedContent(kind) ==
    IF \E i \in 1..Len(inj.opResponse) : inj.opResponse[i].kind = kind
    THEN LET i == CHOOSE i \in 1..Len(inj.opResponse) :
                      /\ inj.opResponse[i].kind = kind
                      /\ \A j \in 1..(i - 1) : inj.opResponse[j].kind # kind
         IN  inj.opResponse[i]
    ELSE Undef

\* the value of a field of a result that may be absent, as may the result
fieldOr0(result, field) ==
    IF result = Undef \/ result[field] = Undef THEN 0 ELSE parseInt(result[field].v)

\* the sum of a field over the primary result of a content and the results of
\* its internal operations
RECURSIVE sumInternal(_, _, _)
sumInternal(internals, n, field) ==
    IF n = 0 THEN 0
    ELSE sumInternal(internals, n - 1, field) + fieldOr0(internals[n].result, field)

sumOver(content, field) ==
    IF content = Undef \/ content.metadata = Undef THEN 0
    ELSE fieldOr0(content.metadata.operation_result, field)
         + (IF content.metadata.internal_operation_results = Undef THEN 0
            ELSE sumInternal(content.metadata.internal_operation_results.items,
                             Len(content.metadata.internal_operation_results.items), field))

\* an estimate has been made of a dry run whose answer is kept
simulated == call.api \in EstimateApis /\ sub.estimation.made /\ inj.answered

\* C35: the Estimate made of a simulation has raw gas = max(sum of
\* consumed_gas over the primary result of the content of the estimated kind
\* and the results of its internal operations, 10600 for a delegation and 0
\* otherwise), raw storage = sum of paid_storage_size_diff over the same
\* results, an absent one counted as 0, + 257 for an origination, 300 for a
\* transfer and 0 for a delegation, and byte size = length of the forged hex
\* string / 2
C35_EstimateOfSimulation ==
    simulated =>
        LET kind == estimatedKind(call.api)
            content == estimatedContent(kind)
            gas == sumOver(content, "consumed_gas")
            minimum == IF kind = "delegation" THEN 10600 ELSE 0
            default == CASE kind = "origination" -> 257
                         [] kind = "transaction" -> 300
                         [] OTHER -> 0
        IN  /\ sub.estimation._gasLimit = (IF gas > minimum THEN gas ELSE minimum)
            /\ sub.estimation._storageLimit = sumOver(content, "paid_storage_size_diff") + default
            /\ 2 * sub.estimation.opSize = sub.opbytes

\* a transfer estimated from a dry run of a reveal and a transaction with two
\* internal operations: gas 15 + 7 + 5, storage 2 + 41 + 300
C35_Witness ==
    /\ simulated
    /\ call.api = "estimate.transfer"
    /\ Len(inj.opResponse) = 2
    /\ inj.opResponse[1].kind = "reveal"
    /\ inj.opResponse[2].metadata # Undef
    /\ inj.opResponse[2].metadata.internal_operation_results # Undef
    /\ Len(inj.opResponse[2].metadata.internal_operation_results.items) = 2
    /\ sub.estimation._gasLimit = 27
    /\ sub.estimation._storageLimit = 343
    /\ sub.opbytes = 302
    /\ sub.estimation.opSize = 151

(***************************************************************************)
(* PollingSubscribeProvider: newBlock$ and subscribeOperation with one     *)
(* subscriber.  A delivery is kept with the place of its content in the    *)
(* block: pass, operation, content.                                        *)
(***************************************************************************)
\* most polls of the head
MaxPolls == 3

\* an entry of a pass of a block
OperationEntry(hash, contents) == [hash |-> Str(hash), contents |-> contents]

\* a block with its passes
Block(hash, operations) == [hash |-> Str(hash), operations |-> operations]

transferTo(destination) ==
    [BlockContent("transaction") EXCEPT !.source = tz1a, !.destination = destination]

\* the heads the node answers with: a block with operations in two passes, a
\* block with other operations, a block without operations
PolledBlocks ==
    {Block("BA", << <<OperationEntry("op1",
                        <<[BlockContent("endorsement") EXCEPT
                              !.metadata = [NoMetadata EXCEPT !.delegate = tz1a]]>>)>>,
                    <<>>,
                    <<>>,
                    <<OperationEntry("op2", <<transferTo(KT1abc),
                                              [BlockContent("delegation") EXCEPT
                                                  !.source = tz1a, !.delegate = KT1abc]>>),
                      OperationEntry("op3", <<transferTo(KT1xyz), transferTo(KT1abc)>>)>> >>),
     Block("BB", << <<>>,
                    <<>>,
                    <<OperationEntry("op4", <<[BlockContent("activate_account") EXCEPT
                                                  !.pkh = tz1a]>>)>>,
                    <<OperationEntry("op5", <<transferTo(KT1abc)>>)>> >>),
     Block("BC", << <<>>, <<>>, <<>>, <<>> >>)}

\* the filters subscribeOperation is called with
SubscribedFilters ==
    {Leaf("kind", Str("transaction")),
     Leaf("opHash", Str("op3")),
     Leaf("source", tz1a),
     And(<<Leaf("kind", Str("transaction")), Leaf("destination", KT1abc)>>),
     Or(<<Leaf("kind", Str("delegation")), Leaf("destination", KT1xyz)>>),
     Leaf("destination", KT1abc),
     Array(<<Leaf("kind", Str("transaction")), Leaf("source", tz1a)>>)}

RECURSIVE flat(_)
\* the lists of a list, one after the other
flat(lists) == IF Len(lists) = 0 THEN <<>> ELSE lists[1] \o flat(Tail(lists))

\* the three nested loops of applyFilter over block.operations, the entries
\* of a pass and the contents of an entry: __assign({ hash: op.hash }, content)
\* for every content, in the order of the loops
contentsOf(block) ==
    flat([p \in 1..Len(block.operations) |->
            flat([o \in 1..Len(block.operations[p]) |->
                    [c \in 1..Len(block.operations[p][o].contents) |->
                        [at |-> <<p, o, c>>,
                         content |-> withHash(block.operations[p][o].hash,
                                              block.operations[p][o].contents[c])]]])])

\* the calls of sub.next applyFilter makes for a block
nexts(block, filter) ==
    SelectSeq(contentsOf(block), LAMBDA d : passes(evaluateFilter(d.content, filter)))

\* every head taken for a new one
everyHeadChanged(previous, block) == TRUE

\* operators.distinctUntilKeyChanged('hash'): the first block goes through,
\* a later one when its hash is not the hash of the last that went through
distinctUntilKeyChanged(previous, block) == previous = Undef \/ block.hash # previous

\* subscribeOperation(filter): the subscription subscribes to newBlock$,
\* whose timer starts with its first subscriber
SubscribeOperation(filter) ==
    /\ feed.state = "none"
    /\ feed' = [feed EXCEPT !.state = "polling", !.filter = filter]
    /\ UNCHANGED <<trackVars, callVars, other, watch, contractVars, contextVars, subscription>>

\* the timer fires and getBlock answers with the head: a head with a new
\* hash goes through applyFilter to the subscriber
HeadPolled(block) ==
    /\ feed.state = "polling"
    /\ feed.polls < MaxPolls
    /\ feed' = IF distinctUntilKeyChanged(feed.previous, block)
               THEN [feed EXCEPT !.polls = @ + 1, !.block = block, !.previous = block.hash,
                                 !.delivered = nexts(block, feed.filter)]
               ELSE [feed EXCEPT !.polls = @ + 1, !.block = block, !.delivered = <<>>]
    /\ UNCHANGED <<trackVars, callVars, other, watch, contractVars, contextVars, subscription>>

\* getBlock fails: the error ends newBlock$ and its timer
PollFailed ==
    /\ feed.state = "polling"
    /\ feed' = [feed EXCEPT !.state = "errored", !.delivered = <<>>]
    /\ UNCHANGED <<trackVars, callVars, other, watch, contractVars, contextVars, subscription>>

InitWatch == QuietInit /\ OtherInit

NextWatch ==
    \/ \E filter \in SubscribedFilters : SubscribeOperation(filter)
    \/ \E block \in PolledBlocks : HeadPolled(block)
    \/ PollFailed

SpecWatch == InitWatch /\ [][NextWatch]_vars

(***************************************************************************)
(* Claims about subscribeOperation (SpecWatch).                            *)
(***************************************************************************)
\* the places of the contents of a block: pass, entry of the pass, content
placesOf(block) ==
    UNION {UNION {{<<p, o, c>> : c \in 1..Len(block.operations[p][o].contents)} :
                     o \in 1..Len(block.operations[p])} :
              p \in 1..Len(block.operations)}

\* the content at a place, with the hash of its operation
taggedAt(block, at) ==
    [block.operations[at[1]][at[2]].contents[at[3]] EXCEPT
        !.hash = block.operations[at[1]][at[2]].hash]

\* pass / operation / content order
before(a, b) ==
    \/ a[1] < b[1]
    \/ a[1] = b[1] /\ a[2] < b[2]
    \/ a[1] = b[1] /\ a[2] = b[2] /\ a[3] < b[3]

\* the step is a poll of the head
Polls == feed'.polls = feed.polls + 1

\* C36: for every newly observed block (a polled head whose hash differs from
\* the hash of the head polled before) the subscriber of subscribeOperation
\* receives exactly the contents of that block that satisfy the filter, each
\* once, in pass / operation / content order, each with the hash of its
\* operation; a poll that returns the hash of the poll before delivers nothing
C36_DeliversMatchesOfNewBlocks ==
    [][Polls =>
          LET block == feed'.block
              delivered == feed'.delivered
          IN  IF feed.block # Undef /\ block.hash = feed.block.hash
              THEN delivered = <<>>
              ELSE /\ \A i \in 1..Len(delivered) :
                         /\ delivered[i].at \in placesOf(block)
                         /\ delivered[i].content = taggedAt(block, delivered[i].at)
                   /\ {delivered[i].at : i \in 1..Len(delivered)} =
                         {at \in placesOf(block) :
                             evaluateFilter(taggedAt(block, at), feed.filter) = Bool(TRUE)}
                   /\ \A i, j \in 1..Len(delivered) :
                         i < j => before(delivered[i].at, delivered[j].at)]_vars

\* the third poll has answered with the block of the first, after another
\* block in between, and its three transactions were delivered again, those
\* of op2 and op3 with the hashes of their operations
C36_Witness ==
    /\ feed.polls = 3
    /\ feed.filter = Leaf("kind", Str("transaction"))
    /\ feed.block.hash = Str("BA")
    /\ Len(feed.delivered) = 3
    /\ feed.delivered[1].content.hash = Str("op2")
    /\ feed.delivered[2].content.hash = Str("op3")
    /\ feed.delivered[3].content.hash = Str("op3")
    /\ feed.delivered[2].content.destination = KT1xyz

(***************************************************************************)
(* Claims about every broadcast of the library (SpecBroadcast).            *)
(***************************************************************************)
\* the requests that hand an operation to the network: the injector of
\* inject and rpc.injectOperation of activate
IsBroadcast(x) == x \in {"inject", "injectOperation"}

\* the place of the first broadcast in the log of the call, 0 without one
firstBroadcast ==
    IF \E i \in 1..Len(log) : IsBroadcast(log[i])
    THEN CHOOSE i \in 1..Len(log) :
            IsBroadcast(log[i]) /\ \A j \in 1..(i - 1) : ~IsBroadcast(log[j])
    ELSE 0

\* C37: every operation the library broadcasts, be it a transfer, an
\* origination, a delegation or an account activation, is broadcast only
\* after a preapply of the same group has answered with no failed content
C37_BroadcastOnlyAfterCleanPreapply ==
    firstBroadcast > 0 =>
        /\ \E i \in 1..(firstBroadcast - 1) : log[i] = "preapplyOperations"
        /\ inj.answered
        /\ inj.answer.array
        /\ ~someFailed(opResponseOf(inj.answer.groups))

(***************************************************************************)
(* Claims about a head that moves faster than the polls (SpecConfirm).     *)
(***************************************************************************)
\* the map of confirmed$ is handed, within the tick budget, a head at or
\* above the block that holds the hash
ScansAtOrAbove ==
    /\ HeadConfirmed
    /\ node.includedAt > 0
    /\ tracker.confirmed.head.level >= node.includedAt

\* C38: if the tracked hash is in the block at level L and the tick budget is
\* not exhausted, the tracker records found level L, also when the head has
\* advanced by more than one block between two polls so that the block at
\* level L was never the head at a poll: a poll that, within the budget, sees
\* a head at or above L leaves the found level at L
C38_FoundThoughHeadSkipsAhead ==
    [][ScansAtOrAbove => tracker'._foundAt = Finite(node.includedAt)]_vars

(***************************************************************************)
(* The protocol decision of prepareOperation, estimation and setDelegate.  *)
(***************************************************************************)
\* a protocol hint is configured on the context
hinted == ctxProto # "none"

\* the decision the hint alone gives, the live next_protocol alone without one
decisionOf(protocol) ==
    \/ hinted /\ ctxProto \in protocol
    \/ ~hinted /\ nextProtocol \in protocol

\* the three places where isAnyProtocolActive has been called and its answer
\* is awaited
decisionPcs == {"p_proto", "s_proto", "e_proto"}

\* C39: the answer on which prepareOperation (refusing a KT1 source, dropping
\* the obsolete fields), createEstimate (fetching the chain id) and
\* setDelegate (refusing a KT1 source) go on is the hint's membership in the
\* 005 list when a hint is configured, whatever the live next_protocol, and
\* the live next_protocol's membership when none is; with a hint every
\* getBlockMetadata of the call is the one prepareOperation makes with its
\* header fetch, without one the decision has made one more
C39_DecisionFromHintAlone ==
    [][/\ (pc = "p_proto" /\ pc' # "p_proto") =>
            /\ pc' = "p_threw" <=>
                   /\ decisionOf(protocols005)
                   /\ hasContractSource(loc.ops, loc.publicKeyHash)
            /\ pc' = "p_returned" =>
                   \A i \in 1..Len(prepared'.contents) :
                       obsoleteFields(prepared'.contents[i]) =
                           IF decisionOf(protocols005)
                           THEN <<Undef, Undef, Undef>>
                           ELSE obsoleteFields(loc.ops[i])
       /\ (pc = "s_proto" /\ pc' # "s_proto") =>
            (pc' = "s_failed" <=>
                 decisionOf(protocols005) /\ kt1Test(call.source))
       /\ (pc = "e_proto" /\ pc' # "e_proto") =>
            (pc' = "e_chain" <=> decisionOf(protocols005))
       /\ hinted =>
            Count(log', "getBlockMetadata") = Count(log', "getBlockHeader")
       /\ (~hinted /\ pc' \in decisionPcs) =>
            /\ log'[Len(log')] = "getBlockMetadata"
            /\ Count(log', "getBlockMetadata") > Count(log', "getBlockHeader")]_vars

\* an estimation has gone for the chain id on a hint of protocol 005 while
\* the live head announces protocol 004
C39_Witness ==
    /\ ctxProto = Proto005a
    /\ nextProtocol = Proto004
    /\ pc = "e_chain"
    /\ Count(log, "getBlockMetadata") = 1

(***************************************************************************)
(* Leaves with several of the keys opHash, source, kind and destination,   *)
(* and with none (SpecLeaves).                                             *)
(***************************************************************************)
\* the leaf with the given values, Undef standing for a key it does not have
KeyedLeaf(opHash, source, kind, destination) ==
    [NoFilter EXCEPT !.opHash = opHash, !.source = source, !.kind = kind,
                     !.destination = destination]

KeyedLeaves ==
    {KeyedLeaf(opHash, source, kind, destination) :
        opHash \in {Undef, Str("op1")},
        source \in {Undef, tz1a},
        kind \in {Undef, Str("transaction"), Str("delegation")},
        destination \in {Undef, KT1abc, KT1xyz}}

InitLeaves ==
    /\ QuietInit
    /\ OtherCallInit
    /\ ContractInit
    /\ ContextInit
    /\ SubscriptionInit
    /\ feed = NoFeed
    /\ \E hash \in Hashes, content \in BlockContents, filter \in KeyedLeaves :
          watch = [phase |-> "observed", op |-> withHash(hash, content),
                   filter |-> filter, result |-> Undef]

NextLeaves == applyFilter

SpecLeaves == InitLeaves /\ [][NextLeaves]_vars

\* the key that comes first in opHash, source, kind, destination among those
\* the leaf carries
firstKey(filter) ==
    IF has(filter.opHash) THEN "opHash"
    ELSE IF has(filter.source) THEN "source"
    ELSE IF has(filter.kind) THEN "kind"
    ELSE IF has(filter.destination) THEN "destination"
    ELSE "none"

\* the leaf that keeps the one key of the filter
only(filter, key) ==
    Leaf(key, CASE key = "opHash" -> filter.opHash
                [] key = "source" -> filter.source
                [] key = "kind" -> filter.kind
                [] key = "destination" -> filter.destination)

\* the number of keys the leaf carries
keysOf(filter) ==
    Cardinality({k \in {"opHash", "source", "kind", "destination"} :
                    has(only(filter, k)[k])})

\* the filter { kind: 'transaction', destination: 'KT1abc' }
TransactionAndKT1abc == KeyedLeaf(Undef, Undef, Str("transaction"), KT1abc)

\* C40: a leaf with several of opHash, source, kind and destination is
\* evaluated as the leaf that keeps only the first of them in that order, so
\* { kind: 'transaction', destination: 'KT1abc' } lets through every
\* transaction and nothing else; a leaf with none of the four lets through
\* nothing
C40_LeafDecidedByFirstKey ==
    evaluated =>
        /\ firstKey(watch.filter) # "none" =>
              /\ watch.result =
                     evaluateFilter(watch.op, only(watch.filter, firstKey(watch.filter)))
              /\ watch.phase = "next" <=>
                     passes(CASE firstKey(watch.filter) = "opHash" ->
                                     opHashFilter(watch.op, watch.filter)
                              [] firstKey(watch.filter) = "source" ->
                                     sourceFilter(watch.op, watch.filter)
                              [] firstKey(watch.filter) = "kind" ->
                                     kindFilter(watch.op, watch.filter)
                              [] firstKey(watch.filter) = "destination" ->
                                     destinationFilter(watch.op, watch.filter))
        /\ firstKey(watch.filter) = "none" =>
              /\ watch.result = Bool(FALSE)
              /\ watch.phase = "skipped"
        /\ watch.filter = TransactionAndKT1abc =>
              (watch.phase = "next" <=> watch.op.kind = Str("transaction"))

\* the filter { kind: 'transaction', destination: 'KT1abc' } has let through
\* a transaction to KT1xyz
C40_Witness ==
    /\ watch.phase = "next"
    /\ watch.filter = TransactionAndKT1abc
    /\ keysOf(watch.filter) = 2
    /\ watch.op.kind = Str("transaction")
    /\ watch.op.destination = KT1xyz

====
